---- MODULE Spec2Model ----
(***************************************************************************)
(* Express training guide: the JWT guards (isAuthenticated, checkRoles)    *)
(* and the user service's loginUser, as state machines.                    *)
(*                                                                         *)
(* Strings of the program that are cut into pieces (the Authorization      *)
(* header) are sequences of atoms: a space, a run of non-space characters  *)
(* (a word), or a three-part signed token.  A token is its payload plus    *)
(* its signature; the signature is the key and the payload it was computed *)
(* over, so a token signed by another key or whose payload was changed     *)
(* after signing does not verify.                                          *)
(***************************************************************************)
EXTENDS Integers, Sequences, FiniteSets, TLC

\* ------------------------------------------------------------------ bounds
MaxTicks == 2          \* number of clock advances in one behaviour
MaxUsers == 2          \* rows the Users table may hold
MaxCalls == 3          \* createUser and verifyUser calls started in one behaviour
MaxRequests == 12      \* requests the application receives in one behaviour
MaxServed == 3         \* requests the controllers serve in one behaviour

\* --------------------------------------------------------------- constants
Undefined == "undefined"      \* JavaScript's undefined
ClockSteps == {500, 3599500}  \* clock advances, in milliseconds

VARIABLES
    env,          \* process.env
    now,          \* Date.now(), milliseconds
    ticks,        \* clock advances so far
    call,         \* the middleware invocation being described
    req,          \* the request object after the middleware ran
    res,          \* responses written: sequence of [status, body]
    nextCalled,   \* one entry per next() call: the request as it was then
    jwtVerified,  \* one entry per jwt.verify call: the token handed to it
    thrown,       \* exceptions that left the middleware
    users,        \* the Users table: a set of rows
    nextId,       \* the next IDENTITY value of Users.userid
    svc,          \* the service call being described
    ret,          \* what the service call returned or threw
    compared,     \* one entry per bcrypt.compare call of the service call
    signed,       \* one entry per jwt.sign call of the service call
    procs,        \* the createUser and verifyUser calls in progress, per slot
    calls,        \* createUser and verifyUser calls started so far
    accepted,     \* the emails for which a verifyUser call has passed the code check
    limiter,      \* the store of rateLimiter: one record per key
    hist,         \* per client address, what happened to each of its requests
    arrived,      \* requests received so far
    todos,        \* the Todos table: a set of rows
    nextTodo,     \* the next IDENTITY value of Todos.todoid
    hreq,         \* the controller run being described
    served        \* controller runs started so far

guardVars == <<call, req, res, nextCalled, jwtVerified, thrown>>
svcVars == <<users, nextId, svc, ret, compared, signed>>
asyncVars == <<procs, calls, accepted>>
appVars == <<limiter, hist, arrived>>
ctlVars == <<todos, nextTodo, hreq, served>>
vars == <<env, now, ticks, call, req, res, nextCalled, jwtVerified, thrown,
          users, nextId, svc, ret, compared, signed, procs, calls, accepted,
          limiter, hist, arrived, todos, nextTodo, hreq, served>>

\* ------------------------------------------------------------ header atoms
Sp == [kind |-> "sp"]
W(t) == [kind |-> "word", text |-> t]

\* StartsWith with the comparison of the characters left out
StartsWith_LengthOnly(s, prefix) == Len(s) >= Len(prefix)

\* s.startsWith(prefix), on atom sequences
StartsWith(s, prefix) ==
    /\ Len(s) >= Len(prefix)
    /\ \A i \in 1..Len(prefix) : s[i] = prefix[i]

BearerPrefix == <<W("Bearer"), Sp>>

\* s.split(' '): the pieces between the spaces, empty pieces included
RECURSIVE SplitFrom(_, _, _)
SplitFrom(s, i, piece) ==
    IF i > Len(s) THEN <<piece>>
    ELSE IF s[i].kind = "sp" THEN <<piece>> \o SplitFrom(s, i + 1, <<>>)
    ELSE SplitFrom(s, i + 1, Append(piece, s[i]))

Split(s) == SplitFrom(s, 1, <<>>)

\* ------------------------------------------------------------------ tokens
Hmac(key, payload) == [key |-> key, over |-> payload]

Jwt(payload, sig) == [kind |-> "jwt", payload |-> payload, sig |-> sig]

ObjectPayload(claims) == [type |-> "object", claims |-> claims]
StringPayload(text) == [type |-> "string", text |-> text]

JwtError(name, message) == [ok |-> FALSE, name |-> name, message |-> message]

ClockTimestamp(clock) == clock \div 1000

\* JwtVerify with the expiry check left out (ignoreExpiration)
JwtVerify_IgnoreExpiration(token, secretOrPublicKey, clock) ==
    IF token = <<>> THEN JwtError("JsonWebTokenError", "jwt must be provided")
    ELSE IF Len(token) # 1 \/ token[1].kind # "jwt"
        THEN JwtError("JsonWebTokenError", "jwt malformed")
    ELSE IF secretOrPublicKey \in {Undefined, ""}
        THEN JwtError("JsonWebTokenError", "secret or public key must be provided")
    ELSE IF token[1].sig # Hmac(secretOrPublicKey, token[1].payload)
        THEN JwtError("JsonWebTokenError", "invalid signature")
    ELSE [ok |-> TRUE, payload |-> token[1].payload]

\* jwt.verify(token, secretOrPublicKey) at time clock (ms); token is the
\* piece of the header handed to it
JwtVerify(token, secretOrPublicKey, clock) ==
    IF token = <<>> THEN JwtError("JsonWebTokenError", "jwt must be provided")
    ELSE IF Len(token) # 1 \/ token[1].kind # "jwt"
        THEN JwtError("JsonWebTokenError", "jwt malformed")
    ELSE IF secretOrPublicKey \in {Undefined, ""}
        THEN JwtError("JsonWebTokenError", "secret or public key must be provided")
    ELSE IF token[1].sig # Hmac(secretOrPublicKey, token[1].payload)
        THEN JwtError("JsonWebTokenError", "invalid signature")
    ELSE IF /\ token[1].payload.type = "object"
            /\ "exp" \in DOMAIN token[1].payload.claims
            /\ ClockTimestamp(clock) >= token[1].payload.claims.exp
        THEN JwtError("TokenExpiredError", "jwt expired")
    ELSE [ok |-> TRUE, payload |-> token[1].payload]

\* ------------------------------------------------- request, response, next
Json(status, message) == [status |-> status, body |-> [message |-> message]]

\* the state of one middleware run before its first statement
Begin(req0) ==
    [req |-> req0, res |-> <<>>, nextCalled |-> <<>>, jwtVerified |-> <<>>,
     thrown |-> <<>>]

\* res.status(status).json({ message })
Respond(o, status, message) == [o EXCEPT !.res = Append(@, Json(status, message))]

\* next()
CallNext(o) == [o EXCEPT !.nextCalled = Append(@, o.req)]

\* SetUser with the assignment left out
SetUser_Skipped(o, decoded) == o

\* (req as any).user = decoded
SetUser(o, decoded) ==
    [o EXCEPT !.req = [f \in DOMAIN o.req \cup {"user"} |->
                          IF f = "user" THEN decoded ELSE o.req[f]]]

NoteVerify(o, token) == [o EXCEPT !.jwtVerified = Append(@, token)]

Throw(o, err) == [o EXCEPT !.thrown = Append(@, err)]

HasAuthHeader(req0) ==
    /\ "authorization" \in DOMAIN req0.headers
    /\ req0.headers.authorization # <<>>

\* process.env.JWT_SECRET
EnvSecret(e) == IF "JWT_SECRET" \in DOMAIN e THEN e.JWT_SECRET ELSE Undefined

\* CheckRoles whose exact-match branch falls through to next() on a mismatch
CheckRoles_FallThrough(requiredRole, req0, e, clock) ==
    IF ~HasAuthHeader(req0) \/ ~StartsWith(req0.headers.authorization, BearerPrefix)
    THEN Respond(Begin(req0), 401, "Unauthorized")
    ELSE
      LET token == Split(req0.headers.authorization)[2]
          v == JwtVerify(token, EnvSecret(e), clock)
          o1 == NoteVerify(Begin(req0), token)
      IN IF ~v.ok THEN Respond(o1, 401, "Invalid Token")
         ELSE
           LET decoded == v.payload
               o2 == SetUser(o1, decoded)
           IN IF decoded.type = "object" /\ "role" \in DOMAIN decoded.claims
              THEN IF requiredRole = "both"
                   THEN IF decoded.claims.role = "admin" \/ decoded.claims.role = "user"
                        THEN CallNext(o2)
                        ELSE Respond(o2, 401, "Unauthorized")
                   ELSE CallNext(o2)
              ELSE Respond(o2, 401, "Invalid Token Payload")

\* CheckRoles whose 'both' branch accepts every role
CheckRoles_BothAcceptsAll(requiredRole, req0, e, clock) ==
    IF ~HasAuthHeader(req0) \/ ~StartsWith(req0.headers.authorization, BearerPrefix)
    THEN Respond(Begin(req0), 401, "Unauthorized")
    ELSE
      LET token == Split(req0.headers.authorization)[2]
          v == JwtVerify(token, EnvSecret(e), clock)
          o1 == NoteVerify(Begin(req0), token)
      IN IF ~v.ok THEN Respond(o1, 401, "Invalid Token")
         ELSE
           LET decoded == v.payload
               o2 == SetUser(o1, decoded)
           IN IF decoded.type = "object" /\ "role" \in DOMAIN decoded.claims
              THEN IF requiredRole = "both"
                   THEN CallNext(o2)
                   ELSE IF decoded.claims.role = requiredRole
                        THEN CallNext(o2)
                        ELSE Respond(o2, 401, "Unauthorized")
              ELSE Respond(o2, 401, "Invalid Token Payload")

\* CheckRoles whose catch block answers with the error's message
CheckRoles_LeakError(requiredRole, req0, e, clock) ==
    IF ~HasAuthHeader(req0) \/ ~StartsWith(req0.headers.authorization, BearerPrefix)
    THEN Respond(Begin(req0), 401, "Unauthorized")
    ELSE
      LET token == Split(req0.headers.authorization)[2]
          v == JwtVerify(token, EnvSecret(e), clock)
          o1 == NoteVerify(Begin(req0), token)
      IN IF ~v.ok THEN Respond(o1, 401, v.message)
         ELSE
           LET decoded == v.payload
               o2 == SetUser(o1, decoded)
           IN IF decoded.type = "object" /\ "role" \in DOMAIN decoded.claims
              THEN IF requiredRole = "both"
                   THEN IF decoded.claims.role = "admin" \/ decoded.claims.role = "user"
                        THEN CallNext(o2)
                        ELSE Respond(o2, 401, "Unauthorized")
                   ELSE IF decoded.claims.role = requiredRole
                        THEN CallNext(o2)
                        ELSE Respond(o2, 401, "Unauthorized")
              ELSE Respond(o2, 401, "Invalid Token Payload")

\* CheckRoles with jwt.verify outside the try block
CheckRoles_NoTry(requiredRole, req0, e, clock) ==
    IF ~HasAuthHeader(req0) \/ ~StartsWith(req0.headers.authorization, BearerPrefix)
    THEN Respond(Begin(req0), 401, "Unauthorized")
    ELSE
      LET token == Split(req0.headers.authorization)[2]
          v == JwtVerify(token, EnvSecret(e), clock)
          o1 == NoteVerify(Begin(req0), token)
      IN IF ~v.ok THEN Throw(o1, v)
         ELSE
           LET decoded == v.payload
               o2 == SetUser(o1, decoded)
           IN IF decoded.type = "object" /\ "role" \in DOMAIN decoded.claims
              THEN IF requiredRole = "both"
                   THEN IF decoded.claims.role = "admin" \/ decoded.claims.role = "user"
                        THEN CallNext(o2)
                        ELSE Respond(o2, 401, "Unauthorized")
                   ELSE IF decoded.claims.role = requiredRole
                        THEN CallNext(o2)
                        ELSE Respond(o2, 401, "Unauthorized")
              ELSE Respond(o2, 401, "Invalid Token Payload")

\* the middleware returned by checkRoles(requiredRole)
CheckRoles(requiredRole, req0, e, clock) ==
    IF ~HasAuthHeader(req0) \/ ~StartsWith(req0.headers.authorization, BearerPrefix)
    THEN Respond(Begin(req0), 401, "Unauthorized")
    ELSE
      LET token == Split(req0.headers.authorization)[2]
          v == JwtVerify(token, EnvSecret(e), clock)
          o1 == NoteVerify(Begin(req0), token)
      IN IF ~v.ok THEN Respond(o1, 401, "Invalid Token")
         ELSE
           LET decoded == v.payload
               o2 == SetUser(o1, decoded)
           IN IF decoded.type = "object" /\ "role" \in DOMAIN decoded.claims
              THEN IF requiredRole = "both"
                   THEN IF decoded.claims.role = "admin" \/ decoded.claims.role = "user"
                        THEN CallNext(o2)
                        ELSE Respond(o2, 401, "Unauthorized")
                   ELSE IF decoded.claims.role = requiredRole
                        THEN CallNext(o2)
                        ELSE Respond(o2, 401, "Unauthorized")
              ELSE Respond(o2, 401, "Invalid Token Payload")

\* IsAuthenticated that lets the request proceed without attaching the claims
IsAuthenticated_NoAttach(req0, e, clock) ==
    IF ~HasAuthHeader(req0) \/ ~StartsWith(req0.headers.authorization, BearerPrefix)
    THEN Respond(Begin(req0), 401, "Unauthorized")
    ELSE
      LET token == Split(req0.headers.authorization)[2]
      IN IF token = <<>> THEN Respond(Begin(req0), 401, "Unauthorized")
         ELSE
           LET v == JwtVerify(token, EnvSecret(e), clock)
               o1 == NoteVerify(Begin(req0), token)
           IN IF ~v.ok THEN Respond(o1, 401, "Unauthorized")
              ELSE CallNext(o1)

\* the isAuthenticated middleware
IsAuthenticated(req0, e, clock) ==
    IF ~HasAuthHeader(req0) \/ ~StartsWith(req0.headers.authorization, BearerPrefix)
    THEN Respond(Begin(req0), 401, "Unauthorized")
    ELSE
      LET token == Split(req0.headers.authorization)[2]
      IN IF token = <<>> THEN Respond(Begin(req0), 401, "Unauthorized")
         ELSE
           LET v == JwtVerify(token, EnvSecret(e), clock)
               o1 == NoteVerify(Begin(req0), token)
           IN IF ~v.ok THEN Respond(o1, 401, "Unauthorized")
              ELSE CallNext(SetUser(o1, v.payload))


\* ---------------------------------------------------------- user service
Null == "<null>"              \* SQL NULL, JavaScript null

\* bcrypt.hash(password, 10): a salted hash of the password
BcryptHash(password, salt) == [alg |-> "bcrypt", rounds |-> 10, salt |-> salt, pw |-> password]

\* a Users.password value that was stored without hashing
Plain(text) == [alg |-> "plain", pw |-> text]

\* bcrypt.compare(password, stored)
BcryptCompare(password, stored) == stored.alg = "bcrypt" /\ stored.pw = password

Returned(value) == [ok |-> TRUE, value |-> value]
Threw(message) == [ok |-> FALSE, error |-> message]

\* the state of one service call before its first statement
BeginSvc(table, id) ==
    [ret |-> Returned("none"), users |-> table, nextId |-> id,
     compared |-> <<>>, signed |-> <<>>, hashed |-> <<>>, repo |-> <<>>]

\* getUserByEmail(email): result.recordset[0] || null
HasEmail(table, email) == \E u \in table : u.email = email
GetUserByEmail(table, email) == CHOOSE u \in table : u.email = email

\* getUserById(id): result.recordset[0]
HasId(table, id) == \E u \in table : u.userid = id
GetUserById(table, id) == CHOOSE u \in table : u.userid = id

\* jwt.sign(payload, secret) at time clock (ms): iat is added, the payload
\* is signed as given
JwtSign(claims, secret, clock) ==
    LET withIat == [f \in DOMAIN claims \cup {"iat"} |->
                       IF f = "iat" THEN ClockTimestamp(clock) ELSE claims[f]]
    IN Jwt(ObjectPayload(withIat), Hmac(secret, ObjectPayload(withIat)))

\* LoginUser without the throw on a password mismatch
LoginUser_NoMismatchThrow(email, password, table, id, e, clock) ==
    LET o0 == BeginSvc(table, id) IN
    IF ~HasEmail(table, email) THEN [o0 EXCEPT !.ret = Threw("User not found")]
    ELSE
      LET user == GetUserByEmail(table, email)
          isMatch == BcryptCompare(password, user.password)
          o1 == [o0 EXCEPT !.compared = Append(@, <<password, user.password>>)]
      IN IF FALSE THEN [o1 EXCEPT !.ret = Threw("Invalid credentials")]
         ELSE
           LET payload == [sub |-> user.userid,
                           first_name |-> user.first_name,
                           last_name |-> user.last_name,
                           role |-> user.role,
                           exp |-> (clock \div 1000) + (60 * 60)]
               secret == EnvSecret(e)
           IN IF secret \in {Undefined, ""}
              THEN [o1 EXCEPT !.ret = Threw("JWT secret not defined")]
              ELSE
                LET token == JwtSign(payload, secret, clock) IN
                [o1 EXCEPT !.signed = Append(@, <<payload, secret>>),
                           !.ret = Returned(
                              [message |-> "Login successful",
                               token |-> token,
                               user |-> [userid |-> user.userid,
                                         first_name |-> user.first_name,
                                         last_name |-> user.last_name,
                                         email |-> user.email,
                                         phone_number |-> user.phone_number]])]

\* LoginUser with exp computed from the clock in milliseconds
LoginUser_ExpInMillis(email, password, table, id, e, clock) ==
    LET o0 == BeginSvc(table, id) IN
    IF ~HasEmail(table, email) THEN [o0 EXCEPT !.ret = Threw("User not found")]
    ELSE
      LET user == GetUserByEmail(table, email)
          isMatch == BcryptCompare(password, user.password)
          o1 == [o0 EXCEPT !.compared = Append(@, <<password, user.password>>)]
      IN IF ~isMatch THEN [o1 EXCEPT !.ret = Threw("Invalid credentials")]
         ELSE
           LET payload == [sub |-> user.userid,
                           first_name |-> user.first_name,
                           last_name |-> user.last_name,
                           role |-> user.role,
                           exp |-> clock + (60 * 60)]
               secret == EnvSecret(e)
           IN IF secret \in {Undefined, ""}
              THEN [o1 EXCEPT !.ret = Threw("JWT secret not defined")]
              ELSE
                LET token == JwtSign(payload, secret, clock) IN
                [o1 EXCEPT !.signed = Append(@, <<payload, secret>>),
                           !.ret = Returned(
                              [message |-> "Login successful",
                               token |-> token,
                               user |-> [userid |-> user.userid,
                                         first_name |-> user.first_name,
                                         last_name |-> user.last_name,
                                         email |-> user.email,
                                         phone_number |-> user.phone_number]])]

\* LoginUser returning the row as it was read, password included
LoginUser_ReturnsRow(email, password, table, id, e, clock) ==
    LET o0 == BeginSvc(table, id) IN
    IF ~HasEmail(table, email) THEN [o0 EXCEPT !.ret = Threw("User not found")]
    ELSE
      LET user == GetUserByEmail(table, email)
          isMatch == BcryptCompare(password, user.password)
          o1 == [o0 EXCEPT !.compared = Append(@, <<password, user.password>>)]
      IN IF ~isMatch THEN [o1 EXCEPT !.ret = Threw("Invalid credentials")]
         ELSE
           LET payload == [sub |-> user.userid,
                           first_name |-> user.first_name,
                           last_name |-> user.last_name,
                           role |-> user.role,
                           exp |-> (clock \div 1000) + (60 * 60)]
               secret == EnvSecret(e)
           IN IF secret \in {Undefined, ""}
              THEN [o1 EXCEPT !.ret = Threw("JWT secret not defined")]
              ELSE
                LET token == JwtSign(payload, secret, clock) IN
                [o1 EXCEPT !.signed = Append(@, <<payload, secret>>),
                           !.ret = Returned(
                              [message |-> "Login successful",
                               token |-> token,
                               user |-> user])]

\* LoginUser without the check that the secret is defined
LoginUser_NoSecretCheck(email, password, table, id, e, clock) ==
    LET o0 == BeginSvc(table, id) IN
    IF ~HasEmail(table, email) THEN [o0 EXCEPT !.ret = Threw("User not found")]
    ELSE
      LET user == GetUserByEmail(table, email)
          isMatch == BcryptCompare(password, user.password)
          o1 == [o0 EXCEPT !.compared = Append(@, <<password, user.password>>)]
      IN IF ~isMatch THEN [o1 EXCEPT !.ret = Threw("Invalid credentials")]
         ELSE
           LET payload == [sub |-> user.userid,
                           first_name |-> user.first_name,
                           last_name |-> user.last_name,
                           role |-> user.role,
                           exp |-> (clock \div 1000) + (60 * 60)]
               secret == EnvSecret(e)
           IN IF FALSE
              THEN [o1 EXCEPT !.ret = Threw("JWT secret not defined")]
              ELSE
                LET token == JwtSign(payload, secret, clock) IN
                [o1 EXCEPT !.signed = Append(@, <<payload, secret>>),
                           !.ret = Returned(
                              [message |-> "Login successful",
                               token |-> token,
                               user |-> [userid |-> user.userid,
                                         first_name |-> user.first_name,
                                         last_name |-> user.last_name,
                                         email |-> user.email,
                                         phone_number |-> user.phone_number]])]

\* LoginUser that refuses accounts whose email is not verified
LoginUser_RequiresVerified(email, password, table, id, e, clock) ==
    LET o0 == BeginSvc(table, id) IN
    IF ~HasEmail(table, email) THEN [o0 EXCEPT !.ret = Threw("User not found")]
    ELSE
      LET user == GetUserByEmail(table, email)
          isMatch == BcryptCompare(password, user.password)
          o1 == [o0 EXCEPT !.compared = Append(@, <<password, user.password>>)]
      IN IF ~isMatch THEN [o1 EXCEPT !.ret = Threw("Invalid credentials")]
         ELSE IF "is_verified" \in DOMAIN user /\ ~user.is_verified
              THEN [o1 EXCEPT !.ret = Threw("Email not verified")]
         ELSE
           LET payload == [sub |-> user.userid,
                           first_name |-> user.first_name,
                           last_name |-> user.last_name,
                           role |-> user.role,
                           exp |-> (clock \div 1000) + (60 * 60)]
               secret == EnvSecret(e)
           IN IF secret \in {Undefined, ""}
              THEN [o1 EXCEPT !.ret = Threw("JWT secret not defined")]
              ELSE
                LET token == JwtSign(payload, secret, clock) IN
                [o1 EXCEPT !.signed = Append(@, <<payload, secret>>),
                           !.ret = Returned(
                              [message |-> "Login successful",
                               token |-> token,
                               user |-> [userid |-> user.userid,
                                         first_name |-> user.first_name,
                                         last_name |-> user.last_name,
                                         email |-> user.email,
                                         phone_number |-> user.phone_number]])]

\* loginUser(email, password)
LoginUser(email, password, table, id, e, clock) ==
    LET o0 == BeginSvc(table, id) IN
    IF ~HasEmail(table, email) THEN [o0 EXCEPT !.ret = Threw("User not found")]
    ELSE
      LET user == GetUserByEmail(table, email)
          isMatch == BcryptCompare(password, user.password)
          o1 == [o0 EXCEPT !.compared = Append(@, <<password, user.password>>)]
      IN IF ~isMatch THEN [o1 EXCEPT !.ret = Threw("Invalid credentials")]
         ELSE
           LET payload == [sub |-> user.userid,
                           first_name |-> user.first_name,
                           last_name |-> user.last_name,
                           role |-> user.role,
                           exp |-> (clock \div 1000) + (60 * 60)]
               secret == EnvSecret(e)
           IN IF secret \in {Undefined, ""}
              THEN [o1 EXCEPT !.ret = Threw("JWT secret not defined")]
              ELSE
                LET token == JwtSign(payload, secret, clock) IN
                [o1 EXCEPT !.signed = Append(@, <<payload, secret>>),
                           !.ret = Returned(
                              [message |-> "Login successful",
                               token |-> token,
                               user |-> [userid |-> user.userid,
                                         first_name |-> user.first_name,
                                         last_name |-> user.last_name,
                                         email |-> user.email,
                                         phone_number |-> user.phone_number]])]

\* createUser(user) of the service, with the repository's INSERT: the
\* password is hashed when it is truthy; role takes the column default;
\* a second row with the same email violates the UNIQUE constraint
CreateUser(user, salt, table, id) ==
    LET o0 == BeginSvc(table, id)
        password == IF user.password # "" THEN BcryptHash(user.password, salt)
                    ELSE Plain(user.password)
    IN IF HasEmail(table, user.email)
       THEN [o0 EXCEPT !.ret = Threw("Violation of UNIQUE KEY constraint")]
       ELSE [o0 EXCEPT
               !.users = table \cup {[userid |-> id,
                                      first_name |-> user.first_name,
                                      last_name |-> user.last_name,
                                      email |-> user.email,
                                      phone_number |-> user.phone_number,
                                      password |-> password,
                                      role |-> "user"]},
               !.nextId = id + 1,
               !.ret = Returned([message |-> "User created successfully"])]

\* UpdateUser that hashes the password before it looks the user up
UpdateUser_HashFirst(uid, user, salt, table, id) ==
    LET o0 == [BeginSvc(table, id) EXCEPT
                  !.hashed = IF user.password # "" THEN <<user.password>> ELSE <<>>,
                  !.repo = <<"getUserById">>]
    IN
    IF ~HasId(table, uid) THEN [o0 EXCEPT !.ret = Threw("User not found")]
    ELSE
      LET old == GetUserById(table, uid)
          password == IF user.password # "" THEN BcryptHash(user.password, salt)
                      ELSE Plain(user.password)
          new == [old EXCEPT !.first_name = user.first_name,
                             !.last_name = user.last_name,
                             !.phone_number = user.phone_number,
                             !.password = password,
                             !.role = user.role]
      IN [o0 EXCEPT !.users = (table \ {old}) \cup {new},
                    !.repo = Append(@, "updateUser"),
                    !.ret = Returned([message |-> "User updated successfully"])]

\* updateUser(id, user) of the service, with the repository's UPDATE:
\* ensureUserExists, then the hash of a truthy password, then the UPDATE
UpdateUser(uid, user, salt, table, id) ==
    LET o0 == [BeginSvc(table, id) EXCEPT !.repo = <<"getUserById">>] IN
    IF ~HasId(table, uid) THEN [o0 EXCEPT !.ret = Threw("User not found")]
    ELSE
      LET old == GetUserById(table, uid)
          password == IF user.password # "" THEN BcryptHash(user.password, salt)
                      ELSE Plain(user.password)
          new == [old EXCEPT !.first_name = user.first_name,
                             !.last_name = user.last_name,
                             !.phone_number = user.phone_number,
                             !.password = password,
                             !.role = user.role]
      IN [o0 EXCEPT !.users = (table \ {old}) \cup {new},
                    !.hashed = IF user.password # "" THEN <<user.password>> ELSE <<>>,
                    !.repo = Append(@, "updateUser"),
                    !.ret = Returned([message |-> "User updated successfully"])]

\* deleteUser(id) of the service, with the repository's DELETE
DeleteUser(uid, table, id) ==
    LET o0 == [BeginSvc(table, id) EXCEPT !.repo = <<"getUserById">>] IN
    IF ~HasId(table, uid) THEN [o0 EXCEPT !.ret = Threw("User not found")]
    ELSE [o0 EXCEPT !.users = {u \in table : u.userid # uid},
                    !.repo = Append(@, "deleteUser"),
                    !.ret = Returned([message |-> "User deleted successfully"])]


\* ------------------------------------------- registration and verification
\* A createUser or verifyUser call of the service with email verification
\* runs in steps: each awaited repository or mailer call is one step, and
\* the calls of different requests interleave between the steps.

Slots == {1, 2}               \* requests that can be in progress together

\* a VARCHAR column value or a JavaScript string / null
SqlNull == [null |-> TRUE]
Text(t) == [null |-> FALSE, text |-> t]

\* n.toString() for n >= 0: the decimal digits, most significant first
RECURSIVE NumToString(_)
NumToString(n) == IF n < 10 THEN <<n>> ELSE Append(NumToString(n \div 10), n % 10)

\* the number a sequence of decimal digits writes
RECURSIVE DigitsValue(_)
DigitsValue(d) ==
    IF d = <<>> THEN 0 ELSE 10 * DigitsValue(SubSeq(d, 1, Len(d) - 1)) + d[Len(d)]

\* GenerateCode with the factor and the offset of another range
GenerateCode_WrongRange(r) == NumToString(0 + (r * 10) \div 10)

\* Math.floor(100000 + Math.random() * 900000).toString(), where
\* Math.random() = r / 1000000 for an integer r in 0..999999
GenerateCode(r) == NumToString(100000 + (r * 9) \div 10)

\* INSERT INTO Users (first_name, last_name, email, phone_number, password):
\* the other columns take their defaults; email is UNIQUE
RepoCreateUser(table, id, user) ==
    IF HasEmail(table, user.email)
    THEN [ok |-> FALSE, error |-> "Violation of UNIQUE KEY constraint"]
    ELSE [ok |-> TRUE,
          users |-> table \cup {[userid |-> id,
                                 first_name |-> user.first_name,
                                 last_name |-> user.last_name,
                                 email |-> user.email,
                                 phone_number |-> user.phone_number,
                                 password |-> user.password,
                                 role |-> "user",
                                 verification_code |-> SqlNull,
                                 is_verified |-> FALSE]},
          nextId |-> id + 1]

\* UPDATE Users SET verification_code = @code, is_verified = 0 WHERE email = @email
RepoSetVerificationCode(table, email, code) ==
    {IF u.email = email
        THEN [u EXCEPT !.verification_code = code, !.is_verified = FALSE]
        ELSE u : u \in table}

\* RepoVerifyUser that does not clear the code
RepoVerifyUser_KeepsCode(table, email) ==
    {IF u.email = email THEN [u EXCEPT !.is_verified = TRUE] ELSE u : u \in table}

\* RepoVerifyUser that clears the code without setting the flag
RepoVerifyUser_ClearsOnly(table, email) ==
    {IF u.email = email THEN [u EXCEPT !.verification_code = SqlNull] ELSE u : u \in table}

\* UPDATE Users SET is_verified = 1, verification_code = NULL WHERE email = @email
RepoVerifyUser(table, email) ==
    {IF u.email = email
        THEN [u EXCEPT !.is_verified = TRUE, !.verification_code = SqlNull]
        ELSE u : u \in table}

MailOutcomes == {"accepted", "rejected", "unresponsive", "error"}

\* SendEmail without the catch block
SendEmail_Rethrow(outcome) ==
    IF outcome = "error" THEN Threw("connect ECONNREFUSED")
    ELSE IF outcome = "accepted" THEN Returned("Email sent successfully")
    ELSE IF outcome = "rejected" THEN Returned("Email not sent")
    ELSE Returned("Email server not responding")

\* sendEmail(to, subject, html), given what the transport does
SendEmail(outcome) ==
    IF outcome = "error" THEN Returned("\"connect ECONNREFUSED\"")
    ELSE IF outcome = "accepted" THEN Returned("Email sent successfully")
    ELSE IF outcome = "rejected" THEN Returned("Email not sent")
    ELSE Returned("Email server not responding")

\* CodeDiffers with the comparison left out
CodeDiffers_Never(stored, code) == FALSE

\* CodeDiffers with the comparison inverted
CodeDiffers_Inverted(stored, code) == stored = code

\* user.verification_code !== code
CodeDiffers(stored, code) == stored # code

Idle == [op |-> "none", pc |-> "idle"]

NoRead == [found |-> FALSE]
Read(table, email) ==
    IF HasEmail(table, email) THEN [found |-> TRUE, row |-> GetUserByEmail(table, email)]
    ELSE NoRead

\* the state of a call before its first awaited step
NewProc(op, pc, email, code, input) ==
    [op |-> op, pc |-> pc, email |-> email, code |-> code, input |-> input,
     read |-> NoRead, ret |-> Returned([message |-> "pending"]), writes |-> 0,
     mails |-> <<>>]

Finish(proc, r) == [proc EXCEPT !.pc = "done", !.ret = r]

VerifySubject == "Verify your email for Todo App"
VerifiedSubject == "Your email has been verified - Todo App"

Mail(to, subject, outcome) == [to |-> to, subject |-> subject, outcome |-> outcome]

\* createUser, lines 404-410: the password is hashed, the code generated
CreateUserBegin(user, salt, r) ==
    NewProc("createUser", "insert", user.email, Text(GenerateCode(r)),
            [user EXCEPT !.password = IF user.password # "" THEN BcryptHash(user.password, salt)
                                       ELSE Plain(user.password)])

\* verifyUser, lines 430-437, on what getUserByEmail(email) returned
VerifyUserCheck(proc, found) ==
    IF ~found.found THEN Finish([proc EXCEPT !.read = found], Threw("User not found"))
    ELSE IF CodeDiffers(found.row.verification_code, proc.code)
        THEN Finish([proc EXCEPT !.read = found], Threw("Invalid verification code"))
    ELSE [proc EXCEPT !.read = found, !.pc = "write"]

\* the awaited sendEmail of a call and the return that follows it
AfterMail(proc, to, subject, outcome, message) ==
    LET sent == SendEmail(outcome)
        p1 == [proc EXCEPT !.mails = Append(@, Mail(to, subject, outcome))]
    IN IF sent.ok THEN Finish(p1, Returned([message |-> message]))
       ELSE Finish(p1, sent)

\* ----------------------------------------------- rate limiter and logger
\* new RateLimiterMemory({ points: 10, duration: 60 })
Points == 10
Duration == 60

\* the addresses requests come from; a request can have no req.ip
ClientIps == {"10.0.0.1", Undefined}

\* req.ip || 'unknown'
KeyOf(ip) == IF ip \in {Undefined, ""} THEN "unknown" ELSE ip

Keys == {KeyOf(ip) : ip \in ClientIps}

NoPoints == [set |-> FALSE]

\* Consume that never rejects
Consume_NoLimit(store, key, clock) ==
    LET rec == store[key]
        live == rec.set /\ rec.expiresAt - clock > 0
        new == IF live THEN [rec EXCEPT !.value = @ + 1]
               ELSE [set |-> TRUE, value |-> 1, expiresAt |-> clock + Duration * 1000]
    IN [store |-> [store EXCEPT ![key] = new], ok |-> TRUE]

\* rateLimiter.consume(key): one point is added to the record of the key,
\* a record that has expired is replaced; the promise rejects when the
\* record then holds more than Points points
Consume(store, key, clock) ==
    LET rec == store[key]
        live == rec.set /\ rec.expiresAt - clock > 0
        new == IF live THEN [rec EXCEPT !.value = @ + 1]
               ELSE [set |-> TRUE, value |-> 1, expiresAt |-> clock + Duration * 1000]
    IN [store |-> [store EXCEPT ![key] = new], ok |-> new.value <= Points]

\* a request as the application receives it
Incoming(ip) == [method |-> "GET", url |-> "/", ip |-> ip]

\* the state of one request before the first middleware; next tells
\* whether the middleware that ran last called next()
Arrive(request, store) ==
    [req |-> request, res |-> <<>>, trace |-> <<>>, console |-> <<>>,
     store |-> store, next |-> TRUE]

Enter(o, stage) == [o EXCEPT !.trace = Append(@, stage), !.next = FALSE]

ConsoleLog(o, line) == [o EXCEPT !.console = Append(@, line)]

\* next(): the request goes on to the middleware registered after this one
PassOn(o) == [o EXCEPT !.next = TRUE]

\* express.json(): a request without a body goes on
ExpressJson(o) == PassOn(Enter(o, "json"))

\* rateLimiterMiddleware(req, res, next)
RateLimiterMiddleware(o, clock) ==
    LET o1 == Enter(o, "rateLimiter")
        c == Consume(o1.store, KeyOf(o1.req.ip), clock)
        o2 == [o1 EXCEPT !.store = c.store]
    IN IF c.ok
       THEN PassOn(ConsoleLog(o2, <<"Rate limit check passed for IP", o2.req.ip>>))
       ELSE [ConsoleLog(o2, <<"Rate limit exceeded for IP", o2.req.ip>>)
                EXCEPT !.res = Append(@, Json(429, "Too Many Requests, please try again later"))]

\* logger(req, res, next)
Logger(o, clock) ==
    PassOn(ConsoleLog(Enter(o, "logger"), <<o.req.method, o.req.url, clock>>))

\* the route handlers: here the default route
Routes(o) ==
    [Enter(o, "route") EXCEPT
        !.res = Append(@, [status |-> 200, body |-> "Hello, express API is running..."])]

\* InitializeApp with logger registered before rateLimiterMiddleware
InitializeApp_LoggerFirst(request, store, clock) ==
    LET a == ExpressJson(Arrive(request, store))
        b == IF a.next THEN Logger(a, clock) ELSE a
        c == IF b.next THEN RateLimiterMiddleware(b, clock) ELSE b
    IN IF c.next THEN Routes(c) ELSE c

\* the application initializeApp builds, applied to one request: the
\* middleware run in the order of their app.use calls, each one only when
\* the one before called next(): express.json(), rateLimiterMiddleware,
\* logger, the routes
InitializeApp(request, store, clock) ==
    LET a == ExpressJson(Arrive(request, store))
        b == IF a.next THEN RateLimiterMiddleware(a, clock) ELSE a
        c == IF b.next THEN Logger(b, clock) ELSE b
    IN IF c.next THEN Routes(c) ELSE c

\* ------------------------------------------------------------ controllers
\* A controller run goes from one awaited call to the next; an awaited
\* repository call resolves or rejects.

NaN == [nan |-> TRUE]
Num(n) == [nan |-> FALSE, n |-> n]

DigitChars == <<"0", "1", "2", "3", "4", "5", "6", "7", "8", "9">>
IsDigit(c) == \E i \in 1..10 : DigitChars[i] = c
DigitValue(c) == (CHOOSE i \in 1..10 : DigitChars[i] = c) - 1

\* the longest prefix of the text that consists of decimal digits
RECURSIVE DigitPrefix(_)
DigitPrefix(text) ==
    IF text = <<>> \/ ~IsDigit(Head(text)) THEN <<>>
    ELSE <<DigitValue(Head(text))>> \o DigitPrefix(Tail(text))

\* parseInt(text): the number the leading digits write, NaN when the text
\* does not begin with a digit; what follows the digits is ignored
ParseInt(text) ==
    LET d == DigitPrefix(text) IN
    IF d = <<>> THEN NaN ELSE Num(DigitsValue(d))

\* isNaN(id)
IsNaN(id) == id.nan

\* a response with a body
Reply(status, body) == [status |-> status, body |-> body]

\* getTodoById(id) of the repository: the row, or nothing
HasTodo(table, id) == ~id.nan /\ \E t \in table : t.todoid = id.n
TodoById(table, id) == CHOOSE t \in table : t.todoid = id.n

\* getUserById for a parsed id
HasUser(table, id) == ~id.nan /\ HasId(table, id.n)

TodoByIdKinds == {"getTodoById", "updateTodo", "deleteTodo"}
TodoKinds == TodoByIdKinds \cup {"getTodos", "createTodo"}
UserEarlyKinds == {"updateUserEarly", "deleteUserEarly"}   \* precheck outside try
UserLaterKinds == {"updateUser", "deleteUser"}
UserKinds == UserEarlyKinds \cup UserLaterKinds
UpdateKinds == {"updateTodo", "updateUser", "updateUserEarly"}
DeleteKinds == {"deleteTodo", "deleteUser", "deleteUserEarly"}

NoRun == [kind |-> "none", pc |-> "idle"]

\* an error the database driver rejects with
DbError == "Connection is closed"

\* the controller run before its first statement
BeginRun(kind, text) ==
    [kind |-> kind, text |-> text, id |-> ParseInt(text), pc |-> "start",
     res |-> <<>>, repo |-> <<>>]

Send(run, status, body) == [run EXCEPT !.res = Append(@, Reply(status, body)), !.pc = "done"]

CallRepo(run, name) == [run EXCEPT !.repo = Append(@, name)]

\* the catch block of the controller, on the message of the error
Catch(run, message) ==
    IF run.kind \in TodoByIdKinds
    THEN IF message = "Inavlid todoid" THEN Send(run, 400, [message |-> "Inavlid todoid"])
         ELSE IF message = "Todo not found" THEN Send(run, 404, [message |-> "Todo not found"])
         ELSE Send(run, 500, [error |-> "Internal server error"])
    ELSE IF run.kind \in UserLaterKinds
    THEN IF message = "Inavlid userid" THEN Send(run, 400, [message |-> "Inavlid userid"])
         ELSE IF message = "User not found" THEN Send(run, 404, [message |-> "User not found"])
         ELSE Send(run, 500, [error |-> message])
    ELSE Send(run, 500, [error |-> message])

\* the status the controller sends when the service call resolved
SuccessStatus(kind) ==
    IF kind = "createTodo" THEN 201 ELSE IF kind = "deleteTodo" THEN 204 ELSE 200

\* the controller up to its first awaited repository call
RunStart(run) ==
    IF run.kind \in TodoByIdKinds
    THEN IF IsNaN(run.id) THEN Catch(run, "Inavlid todoid")
         ELSE [run EXCEPT !.pc = "lookup"]
    ELSE IF run.kind \in UserEarlyKinds
    THEN IF IsNaN(run.id) THEN Send(run, 400, [message |-> "Invalid user id"])
         ELSE [run EXCEPT !.pc = "precheck"]
    ELSE IF run.kind \in UserLaterKinds THEN [run EXCEPT !.pc = "lookup"]
    ELSE IF run.kind = "getTodos" THEN [run EXCEPT !.pc = "lookup"]
    ELSE [run EXCEPT !.pc = "write"]

\* await userServices.getUser(id) of the early user controllers, which is
\* not inside their try block
RunPrecheck(run, table, rejects) ==
    LET r1 == CallRepo(run, "getUserById") IN
    IF rejects THEN [r1 EXCEPT !.pc = "rejected"]
    ELSE IF ~HasUser(table, run.id) THEN Send(r1, 404, [message |-> "User not found"])
    ELSE [r1 EXCEPT !.pc = "lookup"]

\* the awaited lookup of the service: getAllTodos, getTodoById or, in
\* ensureUserExists, getUserById
RunLookup(run, todoTable, userTable, rejects) ==
    IF run.kind = "getTodos"
    THEN LET r1 == CallRepo(run, "getAllTodos") IN
         IF rejects THEN Send(r1, 500, [error |-> DbError])
         ELSE Send(r1, 200, [rows |-> todoTable])
    ELSE IF run.kind \in TodoByIdKinds
    THEN LET r1 == CallRepo(run, "getTodoById") IN
         IF rejects THEN Catch(r1, DbError)
         ELSE IF ~HasTodo(todoTable, run.id) THEN Catch(r1, "Todo not found")
         ELSE IF run.kind = "getTodoById"
              THEN Send(r1, 200, [rows |-> {TodoById(todoTable, run.id)}])
         ELSE [r1 EXCEPT !.pc = "write"]
    ELSE LET r1 == CallRepo(run, "getUserById") IN
         IF rejects THEN Catch(r1, DbError)
         ELSE IF ~HasUser(userTable, run.id) THEN Catch(r1, "User not found")
         ELSE [r1 EXCEPT !.pc = "write"]

\* the name of the repository function the service awaits last
WriteCall(kind) ==
    IF kind = "createTodo" THEN "createTodo"
    ELSE IF kind = "updateTodo" THEN "updateTodo"
    ELSE IF kind = "deleteTodo" THEN "deleteTodo"
    ELSE IF kind \in UpdateKinds THEN "updateUser"
    ELSE "deleteUser"

\* the awaited insert, update or delete of the service and the response
RunWrite(run, rejects, message) ==
    LET r1 == CallRepo(run, WriteCall(run.kind)) IN
    IF rejects THEN Catch(r1, DbError)
    ELSE Send(r1, SuccessStatus(run.kind), [message |-> message])

\* UPDATE Todos SET todo_name = ... WHERE todoid = @id
RepoUpdateTodo(table, id, name) ==
    {IF t.todoid = id THEN [t EXCEPT !.todo_name = name] ELSE t : t \in table}

\* DELETE FROM Todos WHERE todoid = @id
RepoDeleteTodo(table, id) == {t \in table : t.todoid # id}

\* ---------------------------------------------------------- BasicUtils.ts
\* a JavaScript string, as the sequence of its characters
JsString(chars) == [chars |-> chars]

UpperChars == <<"A", "B", "C", "D", "E", "F", "G", "H", "I", "J", "K", "L", "M",
                "N", "O", "P", "Q", "R", "S", "T", "U", "V", "W", "X", "Y", "Z">>
LowerChars == <<"a", "b", "c", "d", "e", "f", "g", "h", "i", "j", "k", "l", "m",
                "n", "o", "p", "q", "r", "s", "t", "u", "v", "w", "x", "y", "z">>

IsUpper(c) == \E i \in 1..26 : UpperChars[i] = c

\* s.toLowerCase()
ToLowerCase(s) ==
    JsString([i \in 1..Len(s.chars) |->
                 IF IsUpper(s.chars[i])
                 THEN LowerChars[CHOOSE k \in 1..26 : UpperChars[k] = s.chars[i]]
                 ELSE s.chars[i]])

\* s.split(""): the array of the one-character strings of s
SplitChars(s) == [i \in 1..Len(s.chars) |-> JsString(<<s.chars[i]>>)]

Developer == JsString(<<"d", "e", "v", "e", "L", "O", "P", "E", "R">>)
Dev == JsString(<<"d", "e", "v">>)

\* AuthenticateUser that compares the username without regard to case
AuthenticateUser_IgnoreCase(username, password) ==
    LET authStatus == ToLowerCase(username) = ToLowerCase(Developer) /\ password = Dev IN
    [usernameToLower |-> ToLowerCase(username),
     usernameCharacters |-> SplitChars(username),
     userDetails |-> [name |-> "Developer", role |-> "admin"],
     isAuthenticated |-> authStatus]

\* authenticateUser(username, password)
AuthenticateUser(username, password) ==
    LET authStatus == username = Developer /\ password = Dev IN
    [usernameToLower |-> ToLowerCase(username),
     usernameCharacters |-> SplitChars(username),
     userDetails |-> [name |-> "Developer", role |-> "admin"],
     isAuthenticated |-> authStatus]

\* ------------------------------------------------- inputs of the guard runs
ServerSecret == "s1"
Roles == {"admin", "user", "guest"}
RequiredRoles == {"admin", "user", "both"}
PresentedExp == 60 * 60       \* the exp claim of the presented tokens, seconds

\* claims objects presented to the guards: with or without role, with or
\* without exp
PresentedClaims ==
    {[sub |-> 1, role |-> r, exp |-> PresentedExp] : r \in Roles}
      \cup {[sub |-> 1, role |-> "admin"], [sub |-> 1, exp |-> PresentedExp]}

PresentedPayloads ==
    {ObjectPayload(c) : c \in PresentedClaims} \cup {StringPayload("hello")}

SignedBy(key, payloads) == {Jwt(p, Hmac(key, p)) : p \in payloads}

\* a token whose payload was replaced after signing
Tampered(key, payloads) ==
    {Jwt(p, Hmac(key, ObjectPayload([sub |-> 1, role |-> "guest"]))) : p \in payloads}

\* tokens signed with the server's secret, signed with another key, and
\* tampered tokens
PresentedTokens ==
    SignedBy(ServerSecret, PresentedPayloads)
      \cup SignedBy("other", PresentedPayloads)
      \cup Tampered(ServerSecret, PresentedPayloads)

\* the tokens tried with the header forms that do not begin with 'Bearer '
ProbeTokens ==
    SignedBy(ServerSecret, {ObjectPayload([sub |-> 1, role |-> "admin", exp |-> PresentedExp])})

\* the Authorization header values tried
Headers(tokens) ==
    { <<W("Bearer"), Sp, t>> : t \in tokens }                       \* Bearer <token>
      \cup { <<W("Bearer"), Sp, t, Sp, W("extra")>> : t \in tokens } \* Bearer <token> extra
      \cup { <<W("Bearer"), Sp, Sp, t>> : t \in tokens \cap ProbeTokens }
      \cup { <<W("bearer"), Sp, t>> : t \in tokens \cap ProbeTokens }
      \cup { <<W("Token"), Sp, t>> : t \in tokens \cap ProbeTokens }
      \cup { <<Sp, W("Bearer"), Sp, t>> : t \in tokens \cap ProbeTokens }
      \cup { <<>>, <<W("Bearer")>>, <<W("Bearer"), Sp>>,
             <<W("Token"), Sp, W("abc123")>>, <<W("Bearer"), Sp, W("abc123")>> }

BaseRequest == [method |-> "GET", url |-> "/todos", headers |-> [host |-> "localhost"]]

WithAuthorization(r, h) ==
    [r EXCEPT !.headers = [host |-> r.headers.host, authorization |-> h]]

Requests(tokens) == {BaseRequest} \cup {WithAuthorization(BaseRequest, h) : h \in Headers(tokens)}

Envs == { [PORT |-> "8081"], [PORT |-> "8081", JWT_SECRET |-> ServerSecret] }

\* the requests the guard runs are tried on
GuardRequests == Requests(PresentedTokens)

NoCall == [mw |-> "none"]
NoSvc == [op |-> "none"]

\* ------------------------------------------------------------------- state
Init ==
    /\ env \in Envs
    /\ now = 0
    /\ ticks = 0
    /\ call = NoCall
    /\ req = BaseRequest
    /\ res = <<>>
    /\ nextCalled = <<>>
    /\ jwtVerified = <<>>
    /\ thrown = <<>>
    /\ users = {}
    /\ nextId = 1
    /\ svc = NoSvc
    /\ ret = Returned("none")
    /\ compared = <<>>
    /\ signed = <<>>
    /\ procs = [p \in Slots |-> Idle]
    /\ calls = 0
    /\ accepted = {}
    /\ limiter = [k \in Keys |-> NoPoints]
    /\ hist = [ip \in ClientIps |-> <<>>]
    /\ arrived = 0
    /\ todos = {}
    /\ nextTodo = 1
    /\ hreq = NoRun
    /\ served = 0

\* time passes
Tick ==
    /\ ticks < MaxTicks
    /\ \E d \in ClockSteps : now' = now + d
    /\ ticks' = ticks + 1
    /\ UNCHANGED <<env, guardVars, svcVars, asyncVars, appVars, ctlVars>>

Record(c, o) ==
    /\ call' = c
    /\ req' = o.req
    /\ res' = o.res
    /\ nextCalled' = o.nextCalled
    /\ jwtVerified' = o.jwtVerified
    /\ thrown' = o.thrown

\* a request reaches a route guarded by checkRoles(requiredRole)
CheckRolesOn(requests) ==
    /\ \E requiredRole \in RequiredRoles, req0 \in requests :
          Record([mw |-> "checkRoles", requiredRole |-> requiredRole, req0 |-> req0,
                  at |-> now],
                 CheckRoles(requiredRole, req0, env, now))
    /\ UNCHANGED <<env, now, ticks, svcVars, asyncVars, appVars, ctlVars>>

\* a request reaches a route guarded by isAuthenticated
IsAuthenticatedOn(requests) ==
    /\ \E req0 \in requests :
          Record([mw |-> "isAuthenticated", req0 |-> req0, at |-> now],
                 IsAuthenticated(req0, env, now))
    /\ UNCHANGED <<env, now, ticks, svcVars, asyncVars, appVars, ctlVars>>

CheckRolesRequest == CheckRolesOn(GuardRequests)

IsAuthenticatedRequest == IsAuthenticatedOn(GuardRequests)

NextGuard == Tick \/ CheckRolesRequest \/ IsAuthenticatedRequest

SpecGuard == Init /\ [][NextGuard]_vars

\* ------------------------------------------------ inputs of the service calls
Emails == {"alice@gmail.com", "brian@gmail.com"}
Passwords == {"password123", ""}
LoginEmails == Emails \cup {"nobody@gmail.com"}
LoginPasswords == Passwords \cup {"mypass123", "wrong"}
Salts == {"salt1"}
StoredRoles == Roles \cup {Null}

NewUsers ==
    {[first_name |-> "Alice", last_name |-> "Mwangi", email |-> "alice@gmail.com",
      phone_number |-> "0711000001", password |-> p] : p \in Passwords}
      \cup {[first_name |-> "Brian", last_name |-> "Kemboi", email |-> "brian@gmail.com",
             phone_number |-> "0711000002", password |-> p] : p \in Passwords}

UpdateUsers ==
    {[first_name |-> "John", last_name |-> "Doe", phone_number |-> "1234567890",
      password |-> p, role |-> r] : p \in {"mypass123"}, r \in StoredRoles}

RecordSvc(c, o) ==
    /\ svc' = c
    /\ users' = o.users
    /\ nextId' = o.nextId
    /\ ret' = o.ret
    /\ compared' = o.compared
    /\ signed' = o.signed

\* POST /users with a body from the given set
CreateUserOn(bodies) ==
    /\ nextId <= MaxUsers
    /\ \E user \in bodies, salt \in Salts :
          RecordSvc([op |-> "createUser", user |-> user, at |-> now],
                    CreateUser(user, salt, users, nextId))
    /\ UNCHANGED <<env, now, ticks, guardVars, asyncVars, appVars, ctlVars>>

CreateUserCall == CreateUserOn(NewUsers)

\* DELETE /users/:id
DeleteUserCall ==
    /\ \E uid \in 1..(MaxUsers + 1) :
          RecordSvc([op |-> "deleteUser", id |-> uid, at |-> now],
                    DeleteUser(uid, users, nextId))
    /\ UNCHANGED <<env, now, ticks, guardVars, asyncVars, appVars, ctlVars>>

\* PUT /users/:id with an id and a body from the given sets
UpdateUserOn(ids, bodies) ==
    /\ \E uid \in ids, user \in bodies, salt \in Salts :
          RecordSvc([op |-> "updateUser", id |-> uid, user |-> user, at |-> now],
                    UpdateUser(uid, user, salt, users, nextId))
    /\ UNCHANGED <<env, now, ticks, guardVars, asyncVars, appVars, ctlVars>>

UpdateUserCall == UpdateUserOn(1..(MaxUsers + 1), UpdateUsers)

\* POST /login with credentials from the given sets
LoginUserOn(emails, passwords) ==
    /\ \E email \in emails, password \in passwords :
          RecordSvc([op |-> "loginUser", email |-> email, password |-> password,
                     at |-> now],
                    LoginUser(email, password, users, nextId, env, now))
    /\ UNCHANGED <<env, now, ticks, guardVars, asyncVars, appVars, ctlVars>>

LoginUserCall == LoginUserOn(LoginEmails, LoginPasswords)

NextLogin == Tick \/ CreateUserCall \/ UpdateUserCall \/ LoginUserCall

SpecLogin == Init /\ [][NextLogin]_vars

\* ===================================================================
\* Properties of the guards (checked under SpecGuard)
\* ===================================================================

\* the Authorization header of a request, "" when there is none
AuthHeader(r) ==
    IF "authorization" \in DOMAIN r.headers THEN r.headers.authorization ELSE <<>>

\* the header begins with the seven characters 'Bearer '
BeginsBearer(h) == Len(h) >= 2 /\ h[1] = W("Bearer") /\ h[2] = Sp

\* the text between the first and the second space of the header
Extracted(h) == Split(h)[2]

\* the verdict of signature-and-expiry verification on the extracted token
Verdict(c) == JwtVerify(Extracted(AuthHeader(c.req0)), EnvSecret(env), c.at)

Verifies(c) == BeginsBearer(AuthHeader(c.req0)) /\ Verdict(c).ok

CarriesRole(c) ==
    /\ Verifies(c)
    /\ Verdict(c).payload.type = "object"
    /\ "role" \in DOMAIN Verdict(c).payload.claims

RoleAccepted(requiredRole, role) ==
    IF requiredRole = "both" THEN role \in {"admin", "user"} ELSE role = requiredRole

Proceeded == Len(nextCalled) >= 1
Denied401 == Len(res) = 1 /\ res[1].status = 401 /\ nextCalled = <<>>

\* the middleware of call c run on request r, in the current environment
RunGuard(c, r) ==
    IF c.mw = "checkRoles" THEN CheckRoles(c.requiredRole, r, env, c.at)
    ELSE IsAuthenticated(r, env, c.at)

WithoutAuthorization(r) == [r EXCEPT !.headers = [host |-> r.headers.host]]

C2_RoleTable ==
    (call.mw = "checkRoles" /\ CarriesRole(call)) =>
        LET role == Verdict(call).payload.claims.role IN
        /\ call.requiredRole = "both" => (Proceeded <=> role \in {"admin", "user"})
        /\ call.requiredRole = "admin" => (Proceeded <=> role = "admin")
        /\ call.requiredRole = "user" => (Proceeded <=> role = "user")
        /\ role \notin {"admin", "user"} => ~Proceeded

\* a role-'user' token reached the 'admin' guard and was denied
C2_Witness ==
    /\ call.mw = "checkRoles"
    /\ CarriesRole(call)
    /\ call.requiredRole = "admin"
    /\ Verdict(call).payload.claims.role = "user"
    /\ ~Proceeded

\* the tokens a header carries
TokensIn(h) == {h[i] : i \in {j \in 1..Len(h) : h[j].kind = "jwt"}}

\* the token's exp claim lies in the past at time clock (ms)
ExpiredAt(t, clock) ==
    /\ t.payload.type = "object"
    /\ "exp" \in DOMAIN t.payload.claims
    /\ t.payload.claims.exp * 1000 < clock

\* C3: a request presenting a token whose exp is in the past at the time of
\* the request is denied (401, no next()), whatever the signature, the role
\* and the required role.
C3_ExpiredDenied ==
    (call.mw # "none" /\ \E t \in TokensIn(AuthHeader(call.req0)) : ExpiredAt(t, call.at))
        => Denied401

\* an expired token with a valid signature and the required role was denied
C3_Witness ==
    /\ call.mw = "checkRoles"
    /\ call.requiredRole = "admin"
    /\ AuthHeader(call.req0) \in
          {<<W("Bearer"), Sp, t>> : t \in SignedBy(ServerSecret,
                {ObjectPayload([sub |-> 1, role |-> "admin", exp |-> PresentedExp])})}
    /\ EnvSecret(env) = ServerSecret
    /\ call.at > PresentedExp * 1000
    /\ Denied401

\* the header names a scheme other than Bearer: '<word> <rest>'
OtherScheme(h) ==
    /\ Len(h) >= 3
    /\ h[1].kind = "word"
    /\ h[1] # W("Bearer")
    /\ h[2] = Sp
    /\ h[3] # Sp

\* what a middleware run shows to the caller and to the rest of the chain
Observable(o) ==
    [res |-> o.res, nexts |-> Len(o.nextCalled), verifies |-> Len(o.jwtVerified),
     userSet |-> "user" \in DOMAIN o.req]

Observed ==
    [res |-> res, nexts |-> Len(nextCalled), verifies |-> Len(jwtVerified),
     userSet |-> "user" \in DOMAIN req]

\* C4: a request whose Authorization header uses another scheme gets the
\* outcome of the same request without the header: same status and body,
\* no next(), no verification attempted, req.user not set.
C4_OtherSchemeAsMissing ==
    (call.mw # "none" /\ OtherScheme(AuthHeader(call.req0))) =>
        /\ Observed = Observable(RunGuard(call, WithoutAuthorization(call.req0)))
        /\ nextCalled = <<>> /\ jwtVerified = <<>> /\ "user" \notin DOMAIN req

\* 'Token <valid admin token>' reached a guard whose secret verifies it
C4_Witness ==
    /\ call.mw # "none"
    /\ AuthHeader(call.req0) \in {<<W("Token"), Sp, t>> : t \in ProbeTokens}
    /\ EnvSecret(env) = ServerSecret
    /\ res = <<Json(401, "Unauthorized")>>

\* the header is exactly 'Bearer <token>': the scheme, one space, one piece
ExactlyBearerToken(h) ==
    /\ Len(h) = 3
    /\ h[1] = W("Bearer")
    /\ h[2] = Sp
    /\ h[3].kind # "sp"

\* C5 (as stated): every header value other than exactly 'Bearer <token>'
\* gets the outcome of an absent header.
C5_DeviationAsAbsent ==
    (call.mw # "none" /\ ~ExactlyBearerToken(AuthHeader(call.req0))) =>
        Observed = Observable(RunGuard(call, WithoutAuthorization(call.req0)))

\* the same header with every token replaced by t
ReplaceToken(h, t) == [i \in 1..Len(h) |-> IF h[i].kind = "jwt" THEN t ELSE h[i]]

CorrectlySignedExpired(at) ==
    {t \in SignedBy(ServerSecret, PresentedPayloads) : ExpiredAt(t, at)}

\* C6: a request whose token has an invalid signature gets the response
\* (status and body) that the same request gets with a correctly signed but
\* expired token.
C6_BadSignatureAsExpired ==
    (/\ call.mw # "none"
     /\ BeginsBearer(AuthHeader(call.req0))
     /\ ~Verdict(call).ok
     /\ Verdict(call).message = "invalid signature") =>
        \A t \in CorrectlySignedExpired(call.at) :
            LET other == RunGuard(call, WithAuthorization(call.req0,
                                     ReplaceToken(AuthHeader(call.req0), t)))
            IN /\ JwtVerify(<<t>>, EnvSecret(env), call.at).message = "jwt expired"
               /\ other.res = res

\* a token with an invalid signature was refused at a time when correctly
\* signed tokens have expired
C6_Witness ==
    /\ call.mw = "checkRoles"
    /\ BeginsBearer(AuthHeader(call.req0))
    /\ ~Verdict(call).ok
    /\ Verdict(call).message = "invalid signature"
    /\ CorrectlySignedExpired(call.at) # {}
    /\ res = <<Json(401, "Invalid Token")>>

C8_ProceedAttachesClaims ==
    (call.mw # "none" /\ Proceeded) =>
        /\ Len(nextCalled) = 1
        /\ res = <<>>
        /\ DOMAIN nextCalled[1] = DOMAIN call.req0 \cup {"user"}
        /\ nextCalled[1].user = Extracted(AuthHeader(call.req0))[1].payload
        /\ \A f \in DOMAIN call.req0 : nextCalled[1][f] = call.req0[f]
        /\ req = nextCalled[1]

\* a request proceeded
C8_Witness ==
    /\ call.mw = "checkRoles"
    /\ Proceeded
    /\ req.user.claims.role = "user"

\* ===================================================================
\* Properties of loginUser (checked under SpecLogin)
\* ===================================================================

\* the stored secret of row u is a hash of password
Matches(password, u) == u.password.alg = "bcrypt" /\ u.password.pw = password

\* C9: loginUser fails with 'User not found' when no row has the email,
\* without comparing a password; fails with 'Invalid credentials' when the
\* row exists and the password does not match; returns a token only when
\* the row exists and the password matches; signs nothing on a failure.
C9_LoginFailures ==
    svc.op = "loginUser" =>
        LET rows == {u \in users : u.email = svc.email} IN
        /\ rows = {} => (ret = Threw("User not found") /\ compared = <<>>)
        /\ (rows # {} /\ \A u \in rows : ~Matches(svc.password, u))
              => ret = Threw("Invalid credentials")
        /\ ret.ok => (\E u \in rows : Matches(svc.password, u))
        /\ ~ret.ok => signed = <<>>

\* a login with a wrong password on an existing row failed
C9_Witness ==
    /\ svc.op = "loginUser"
    /\ \E u \in users : u.email = svc.email /\ u.password.alg = "bcrypt"
                          /\ ~Matches(svc.password, u)
    /\ ret = Threw("Invalid credentials")
    /\ signed = <<>>

\* C10: the token of a successful login decodes to sub = the row's userid,
\* role = the row's stored role, exp = issuance time in seconds + 3600.
C10_TokenClaims ==
    (svc.op = "loginUser" /\ ret.ok) =>
        \A u \in {x \in users : x.email = svc.email} :
            LET v == JwtVerify(<<ret.value.token>>, EnvSecret(env), svc.at) IN
            /\ v.ok
            /\ v.payload.type = "object"
            /\ v.payload.claims.sub = u.userid
            /\ v.payload.claims.role = u.role
            /\ v.payload.claims.exp = (svc.at \div 1000) + 3600

\* a login succeeded after the clock moved off a whole second, for a row
\* whose role was changed from the default
C10_Witness ==
    /\ svc.op = "loginUser"
    /\ ret.ok
    /\ svc.at % 1000 # 0
    /\ \E u \in users : u.email = svc.email /\ u.role = "admin" /\ u.userid = 2

\* stored secrets other than the one row u holds
OtherHashes(password) ==
    {BcryptHash(password, "salt2"), BcryptHash("another", "salt1")}

\* the table with the stored secret of row u replaced by h
WithPassword(table, u, h) == (table \ {u}) \cup {[u EXCEPT !.password = h]}

\* C11: the result of a successful login does not carry the stored secret:
\* neither the returned user object nor the token payload has a password
\* field, and a row that differs only in its stored hash, logged in with its
\* own password at the same instant, gets an equal result.
C11_ResultWithoutSecret ==
    (svc.op = "loginUser" /\ ret.ok) =>
        /\ "password" \notin DOMAIN ret.value.user
        /\ "password" \notin DOMAIN ret.value.token.payload.claims
        /\ \A u \in {x \in users : x.email = svc.email} :
             \A h \in OtherHashes(svc.password) :
                LoginUser(svc.email, h.pw, WithPassword(users, u, h), nextId, env, svc.at).ret
                    = ret

\* a login succeeded on a row whose secret is a hash
C11_Witness ==
    /\ svc.op = "loginUser"
    /\ ret.ok
    /\ \E u \in users : u.email = svc.email /\ u.password.alg = "bcrypt"
                          /\ u.userid = ret.value.user.userid

\* ===================================================================
\* The signing secret as configuration (checked under SpecConfig): the
\* service with its login route and its guarded routes, started with or
\* without JWT_SECRET
\* ===================================================================

\* requests to the guarded routes: no header, a token signed with the
\* server's secret, a token signed with another key
ConfigRequests ==
    {BaseRequest}
      \cup {WithAuthorization(BaseRequest, <<W("Bearer"), Sp, t>>) :
              t \in SignedBy(ServerSecret, {ObjectPayload([sub |-> 1, role |-> "admin"])})
                      \cup SignedBy("other", {ObjectPayload([sub |-> 1, role |-> "user"])})}

ConfigCheckRolesRequest == CheckRolesOn(ConfigRequests)

ConfigIsAuthenticatedRequest == IsAuthenticatedOn(ConfigRequests)

NextConfig ==
    CreateUserCall \/ LoginUserCall \/ ConfigCheckRolesRequest \/ ConfigIsAuthenticatedRequest

SpecConfig == Init /\ [][NextConfig]_vars

SecretMissing == EnvSecret(env) \in {Undefined, ""}

\* C12 (as stated): a missing signing secret is fatal at startup, so no
\* login request and no guarded request is handled while it is undefined.
C12_NoRequestWithoutSecret ==
    (svc.op = "loginUser" \/ call.mw # "none") => ~SecretMissing

\* C12 (amended): a missing signing secret is a per-request error: requests
\* are handled, but while the secret is undefined every loginUser call fails
\* without signing a token, with 'JWT secret not defined' when the row exists
\* and the password matches, and every guard run answers 401 without next().
C12_MissingSecretPerRequest ==
    SecretMissing =>
        /\ svc.op = "loginUser" =>
              /\ ~ret.ok
              /\ signed = <<>>
              /\ (\E u \in users : u.email = svc.email /\ Matches(svc.password, u))
                    => ret = Threw("JWT secret not defined")
        /\ call.mw # "none" => (Denied401 /\ thrown = <<>>)

\* without a secret, a login with the right password failed on the secret
\* and a request with a bearer token was answered 401
C12_Witness ==
    /\ SecretMissing
    /\ svc.op = "loginUser"
    /\ ret = Threw("JWT secret not defined")
    /\ compared # <<>>
    /\ call.mw = "checkRoles"
    /\ BeginsBearer(AuthHeader(call.req0))
    /\ Denied401

\* ===================================================================
\* Registration and verification (SpecVerify)
\* ===================================================================
RandomSamples == {0, 999999}     \* Math.random(), in millionths

VerifyNewUsers ==
    {[first_name |-> "Alice", last_name |-> "Mwangi", email |-> "alice@gmail.com",
      phone_number |-> "0711000001", password |-> "password123"]}

VerifyEmails == {"alice@gmail.com", "nobody@gmail.com"}

SubmittedCodes ==
    {Text(GenerateCode(r)) : r \in RandomSamples} \cup {Text(<<0, 0, 0, 0, 0, 0>>)}

\* POST /login while registrations and verifications are in progress
VerifyLoginUserCall == LoginUserOn({"alice@gmail.com"}, {"password123", "wrong"})

\* PUT /users/1 while registrations and verifications are in progress
VerifyUpdateUserCall ==
    UpdateUserOn({1}, {[first_name |-> "Alice", last_name |-> "Mwangi",
                        phone_number |-> "0711000001", password |-> "mypass123",
                        role |-> "user"]})

Free(p) == procs[p].pc \in {"idle", "done"}

SetProc(p, proc) == procs' = [procs EXCEPT ![p] = proc]

\* POST /users arrives
StartCreateUser(p) ==
    /\ Free(p)
    /\ calls < MaxCalls
    /\ \E user \in VerifyNewUsers, salt \in Salts, r \in RandomSamples :
          SetProc(p, CreateUserBegin(user, salt, r))
    /\ calls' = calls + 1
    /\ UNCHANGED <<env, now, ticks, guardVars, svcVars, accepted, appVars, ctlVars>>

\* await userRepositories.createUser(user)
CreateInsert(p) ==
    /\ procs[p].op = "createUser" /\ procs[p].pc = "insert"
    /\ LET r == RepoCreateUser(users, nextId, procs[p].input) IN
       IF r.ok
       THEN /\ users' = r.users
            /\ nextId' = r.nextId
            /\ SetProc(p, [procs[p] EXCEPT !.pc = "setCode", !.writes = @ + 1])
       ELSE /\ SetProc(p, Finish(procs[p], Threw(r.error)))
            /\ UNCHANGED <<users, nextId>>
    /\ UNCHANGED <<env, now, ticks, guardVars, svc, ret, compared, signed, calls, accepted, appVars, ctlVars>>

\* await userRepositories.setVerificationCode(user.email, verificationCode)
CreateSetCode(p) ==
    /\ procs[p].op = "createUser" /\ procs[p].pc = "setCode"
    /\ users' = RepoSetVerificationCode(users, procs[p].email, procs[p].code)
    /\ SetProc(p, [procs[p] EXCEPT !.pc = "mail", !.writes = @ + 1])
    /\ UNCHANGED <<env, now, ticks, guardVars, nextId, svc, ret, compared, signed, calls, accepted, appVars, ctlVars>>

\* await sendEmail(user.email, 'Verify your email for Todo App', ...); return
CreateMail(p) ==
    /\ procs[p].op = "createUser" /\ procs[p].pc = "mail"
    /\ \E outcome \in MailOutcomes :
          SetProc(p, AfterMail(procs[p], procs[p].email, VerifySubject, outcome,
                               "User created successfully. Verification code sent to email"))
    /\ UNCHANGED <<env, now, ticks, guardVars, svcVars, calls, accepted, appVars, ctlVars>>

\* POST /verify arrives
StartVerifyUser(p) ==
    /\ Free(p)
    /\ calls < MaxCalls
    /\ \E email \in VerifyEmails, code \in SubmittedCodes :
          SetProc(p, NewProc("verifyUser", "read", email, code, email))
    /\ calls' = calls + 1
    /\ UNCHANGED <<env, now, ticks, guardVars, svcVars, accepted, appVars, ctlVars>>

\* await userRepositories.getUserByEmail(email), and the two checks
VerifyRead(p) ==
    /\ procs[p].op = "verifyUser" /\ procs[p].pc = "read"
    /\ SetProc(p, VerifyUserCheck(procs[p], Read(users, procs[p].email)))
    /\ accepted' = IF procs'[p].pc = "write" THEN accepted \cup {procs[p].email} ELSE accepted
    /\ UNCHANGED <<env, now, ticks, guardVars, svcVars, calls, appVars, ctlVars>>

\* await userRepositories.verifyUser(email)
VerifyWrite(p) ==
    /\ procs[p].op = "verifyUser" /\ procs[p].pc = "write"
    /\ users' = RepoVerifyUser(users, procs[p].email)
    /\ SetProc(p, [procs[p] EXCEPT !.pc = "mail", !.writes = @ + 1])
    /\ UNCHANGED <<env, now, ticks, guardVars, nextId, svc, ret, compared, signed, calls, accepted, appVars, ctlVars>>

\* await sendEmail(user.email, 'Your email has been verified - Todo App', ...); return
VerifyMail(p) ==
    /\ procs[p].op = "verifyUser" /\ procs[p].pc = "mail"
    /\ \E outcome \in MailOutcomes :
          SetProc(p, AfterMail(procs[p], procs[p].read.row.email, VerifiedSubject, outcome,
                               "User verified successfully"))
    /\ UNCHANGED <<env, now, ticks, guardVars, svcVars, calls, accepted, appVars, ctlVars>>

NextVerify ==
    \/ \E p \in Slots : StartCreateUser(p)
    \/ \E p \in Slots : CreateInsert(p)
    \/ \E p \in Slots : CreateSetCode(p)
    \/ \E p \in Slots : CreateMail(p)
    \/ \E p \in Slots : StartVerifyUser(p)
    \/ \E p \in Slots : VerifyRead(p)
    \/ \E p \in Slots : VerifyWrite(p)
    \/ \E p \in Slots : VerifyMail(p)
    \/ VerifyLoginUserCall
    \/ VerifyUpdateUserCall

SpecVerify == Init /\ [][NextVerify]_vars

\* ===================================================================
\* Properties of registration and verification (checked under SpecVerify)
\* ===================================================================

\* the row of the table with the given userid, as a set
RowById(table, id) == {u \in table : u.userid = id}

\* slot p takes the step of verifyUser that runs the repository's verifyUser
ConfirmsNow(p) ==
    /\ procs[p].op = "verifyUser" /\ procs[p].pc = "write"
    /\ procs'[p].op = "verifyUser" /\ procs'[p].pc = "mail"

\* C13: over registrations, code issues, confirmations, logins and user
\* updates, a row's
\* is_verified never goes from true to false, and it goes from false to true
\* only in the step of a confirmation whose submitted code equals the code
\* the row stores at that time (so it changes at most once).
C13_VerifiedOnlyByMatchingCode ==
    [][\A u \in users : \A v \in RowById(users', u.userid) :
          /\ u.is_verified => v.is_verified
          /\ (~u.is_verified /\ v.is_verified) =>
                \E p \in Slots : /\ ConfirmsNow(p)
                                 /\ procs[p].email = u.email
                                 /\ procs[p].code = u.verification_code]_vars

\* a confirmation with the stored code has set is_verified
C13_Witness ==
    \E p \in Slots : \E u \in users :
        /\ procs[p].op = "verifyUser" /\ procs[p].pc = "mail" /\ procs[p].writes = 1
        /\ u.email = procs[p].email /\ u.is_verified
        /\ procs[p].read.row.verification_code = procs[p].code
        /\ ~procs[p].read.row.is_verified

\* the calls of verifyUser that have returned or thrown
VerifyDone == {p \in Slots : procs[p].op = "verifyUser" /\ procs[p].pc = "done"}

\* the call read a row whose stored code is the code it submitted
ReadMatching(p) ==
    procs[p].read.found /\ procs[p].read.row.verification_code = procs[p].code

\* the call read a row that an earlier confirmation had already verified
ReadVerified(p) ==
    /\ procs[p].read.found
    /\ procs[p].read.row.is_verified
    /\ procs[p].read.row.verification_code = SqlNull

VerifiedMessage == Returned([message |-> "User verified successfully"])

\* C14: a verifyUser call that presents the code registration stored
\* succeeds, leaves the row with is_verified = true and the code NULL and
\* dispatches exactly one confirmation notification; a verifyUser call with a
\* code that runs after such a success fails with 'Invalid verification code',
\* writes nothing and dispatches nothing.
C14_VerifyOnceThenInvalid ==
    \A p \in VerifyDone :
        /\ ReadMatching(p) =>
              /\ procs[p].ret = VerifiedMessage
              /\ procs[p].writes = 1
              /\ Len(procs[p].mails) = 1
              /\ procs[p].mails[1].subject = VerifiedSubject
              /\ procs[p].mails[1].to = procs[p].email
              /\ \A u \in users : u.email = procs[p].email =>
                     u.is_verified /\ u.verification_code = SqlNull
        /\ ReadVerified(p) =>
              /\ procs[p].ret = Threw("Invalid verification code")
              /\ procs[p].writes = 0
              /\ procs[p].mails = <<>>

\* one call succeeded and a later call with the same code was refused
C14_Witness ==
    \E p \in VerifyDone, q \in VerifyDone :
        /\ ReadMatching(p) /\ ~procs[p].read.row.is_verified
        /\ procs[p].ret = VerifiedMessage
        /\ ReadVerified(q) /\ procs[q].code = procs[p].code
        /\ procs[q].ret = Threw("Invalid verification code")

\* the call read a row whose stored code is not exactly the submitted code
ReadMismatch(p) ==
    procs[p].read.found /\ procs[p].read.row.verification_code # procs[p].code

\* C15: verifyUser fails with 'User not found' when no row has the email
\* and with 'Invalid verification code' when the stored code is not exactly
\* the submitted one; in both cases the call writes nothing to the table (so
\* is_verified and the stored code stay) and dispatches no notification.
C15_VerifyFailuresChangeNothing ==
    \A p \in VerifyDone :
        /\ ~procs[p].read.found =>
              /\ procs[p].ret = Threw("User not found")
              /\ procs[p].writes = 0 /\ procs[p].mails = <<>>
        /\ ReadMismatch(p) =>
              /\ procs[p].ret = Threw("Invalid verification code")
              /\ procs[p].writes = 0 /\ procs[p].mails = <<>>

\* both failures have happened, and the row still awaits its code
C15_Witness ==
    \E p \in VerifyDone, q \in VerifyDone :
        /\ ~procs[p].read.found /\ procs[p].ret = Threw("User not found")
        /\ ReadMismatch(q) /\ procs[q].read.row.verification_code # SqlNull
        /\ procs[q].ret = Threw("Invalid verification code")
        /\ procs[q].read.row \in users
        /\ ~procs[q].read.row.is_verified

CreatedMessage ==
    Returned([message |-> "User created successfully. Verification code sent to email"])

\* the call has run its sendEmail
Mailed(p) == procs[p].pc = "done" /\ procs[p].mails # <<>>

\* C16: whatever the notification collaborator does (accepts, rejects, does
\* not respond, or its transport fails), verifyUser returns success with
\* is_verified = true and the code cleared, and createUser returns success
\* with the user inserted and the code stored; no notification error reaches
\* the caller and no store update is undone.
C16_NotificationNeverFatal ==
    \A p \in Slots :
        /\ (procs[p].op = "verifyUser" /\ procs[p].pc = "mail") =>
              \A o \in MailOutcomes :
                  AfterMail(procs[p], procs[p].email, VerifiedSubject, o,
                            "User verified successfully").ret = VerifiedMessage
        /\ (procs[p].op = "createUser" /\ procs[p].pc = "mail") =>
              \A o \in MailOutcomes :
                  AfterMail(procs[p], procs[p].email, VerifySubject, o,
                            "User created successfully. Verification code sent to email").ret
                      = CreatedMessage
        /\ (procs[p].op = "verifyUser" /\ Mailed(p)) =>
              /\ procs[p].ret = VerifiedMessage
              /\ \E u \in users : u.email = procs[p].email
              /\ \A u \in users : u.email = procs[p].email =>
                     u.is_verified /\ u.verification_code = SqlNull
        /\ (procs[p].op = "createUser" /\ Mailed(p)) =>
              /\ procs[p].ret = CreatedMessage
              /\ \E u \in users :
                    /\ u.email = procs[p].email
                    /\ \/ u.verification_code = procs[p].code /\ ~u.is_verified
                       \/ u.verification_code = SqlNull /\ u.is_verified

\* a registration whose mail got no response and a confirmation whose mail
\* transport failed have both returned success
C16_Witness ==
    \E p \in Slots, q \in Slots :
        /\ procs[p].op = "createUser" /\ Mailed(p)
        /\ procs[p].mails[1].outcome = "unresponsive"
        /\ procs[p].ret = CreatedMessage
        /\ procs[q].op = "verifyUser" /\ Mailed(q)
        /\ procs[q].mails[1].outcome = "error"
        /\ procs[q].ret = VerifiedMessage
        /\ \E u \in users : u.email = procs[q].email /\ u.is_verified

\* two calls of verifyUser on one email that both read the row, with the
\* code they submit still stored, before either of them wrote
RacingPairs ==
    {pq \in Slots \X Slots :
        /\ pq[1] # pq[2]
        /\ procs[pq[1]].op = "verifyUser" /\ procs[pq[2]].op = "verifyUser"
        /\ procs[pq[1]].pc \notin {"read"} /\ procs[pq[2]].pc \notin {"read"}
        /\ procs[pq[1]].email = procs[pq[2]].email
        /\ ReadMatching(pq[1]) /\ ~procs[pq[1]].read.row.is_verified
        /\ ReadMatching(pq[2]) /\ ~procs[pq[2]].read.row.is_verified}

\* C17: when two verifyUser calls for the same email with the correct code
\* interleave so that both read before either writes, both return 'User
\* verified successfully' and two confirmation notifications are dispatched.
C17_RaceAcceptsBoth ==
    \A pq \in RacingPairs :
        (procs[pq[1]].pc = "done" /\ procs[pq[2]].pc = "done") =>
            /\ procs[pq[1]].ret = VerifiedMessage
            /\ procs[pq[2]].ret = VerifiedMessage
            /\ Len(procs[pq[1]].mails) + Len(procs[pq[2]].mails) = 2
            /\ procs[pq[1]].mails[1].subject = VerifiedSubject
            /\ procs[pq[2]].mails[1].subject = VerifiedSubject

\* both racing calls have returned
C17_Witness ==
    \E pq \in RacingPairs :
        /\ procs[pq[1]].pc = "done" /\ procs[pq[2]].pc = "done"
        /\ procs[pq[1]].ret = VerifiedMessage /\ procs[pq[2]].ret = VerifiedMessage
        /\ procs[pq[1]].writes = 1 /\ procs[pq[2]].writes = 1

\* createUser has inserted the row of this email and not yet stored its code
Registering(email) ==
    \E p \in Slots : /\ procs[p].op = "createUser" /\ procs[p].pc = "setCode"
                     /\ procs[p].email = email

\* a verifyUser call for this email has passed the check and not yet written
Confirming(email) ==
    \E p \in Slots : /\ procs[p].op = "verifyUser" /\ procs[p].pc = "write"
                     /\ procs[p].email = email

\* C18: under every interleaving of verifyUser calls on one email the
\* registered row ends as after some sequential run: verified with the code
\* NULL if some call presented the outstanding code, unchanged (unverified,
\* code stored) otherwise; it is never verified with a code stored nor
\* unverified with the code cleared.
C18_RowAsAfterSequentialRun ==
    \A u \in users : ~Registering(u.email) =>
        /\ u.is_verified <=> (u.verification_code = SqlNull)
        /\ ~Confirming(u.email) =>
              IF u.email \in accepted
              THEN u.is_verified /\ u.verification_code = SqlNull
              ELSE ~u.is_verified /\ u.verification_code \in SubmittedCodes

\* a call with the outstanding code and a call with another code ran
\* concurrently: both read the unverified row, and the row ended verified
C18_Witness ==
    \E p \in VerifyDone, q \in VerifyDone : \E u \in users :
        /\ u.email = procs[p].email /\ u.email = procs[q].email
        /\ ReadMatching(p) /\ ~procs[p].read.row.is_verified
        /\ ReadMismatch(q) /\ procs[q].read.row = procs[p].read.row
        /\ u.is_verified /\ u.verification_code = SqlNull
        /\ u.email \in accepted

\* a string of exactly six decimal digits with a value in 100000..999999
SixDigits(c) ==
    /\ ~c.null
    /\ Len(c.text) = 6
    /\ \A i \in 1..6 : c.text[i] \in 0..9
    /\ c.text[1] # 0
    /\ DigitsValue(c.text) >= 100000 /\ DigitsValue(c.text) <= 999999

\* values of Math.random(), in millionths, the code generation is probed on
RandomProbes == RandomSamples \cup {1, 2, 111111, 425459, 999998}

\* C19: every verification code generated at registration is a string of
\* exactly six decimal digits with a value in 100000..999999 (no leading
\* zero, never 1000000), and storing it for an email sets that row's code to
\* it and its is_verified to false, leaving the other rows as they are.
C19_SixDigitCodeStored ==
    /\ \A r \in RandomProbes : SixDigits(Text(GenerateCode(r)))
    /\ \A p \in Slots : procs[p].op = "createUser" => SixDigits(procs[p].code)
    /\ \A p \in Slots :
          (procs[p].op = "createUser" /\ procs[p].pc = "mail" /\ procs[p].email \notin accepted) =>
              \E u \in users : /\ u.email = procs[p].email
                               /\ u.verification_code = procs[p].code
                               /\ ~u.is_verified
    /\ \A u \in users : \A r \in RandomProbes :
          LET c == Text(GenerateCode(r))
              t == RepoSetVerificationCode(users, u.email, c)
          IN /\ \A v \in t : v.email = u.email => (v.verification_code = c /\ ~v.is_verified)
             /\ {v \in t : v.email # u.email} = {v \in users : v.email # u.email}
             /\ \E v \in t : v.email = u.email

\* registration has stored the largest code, and the row awaits it
C19_Witness ==
    \E p \in Slots : \E u \in users :
        /\ procs[p].op = "createUser" /\ procs[p].pc = "mail"
        /\ procs[p].code = Text(<<9, 9, 9, 9, 9, 9>>)
        /\ u.email = procs[p].email
        /\ u.verification_code = procs[p].code
        /\ ~u.is_verified

\* the table with the verification columns of row u set to the given values
WithVerification(table, u, flag, code) ==
    (table \ {u}) \cup {[u EXCEPT !.is_verified = flag, !.verification_code = code]}

\* C20: the outcome of loginUser does not depend on is_verified or on the
\* stored verification code: with the same email, password and stored hash
\* a verified and an unverified row get the same result, so an unverified
\* account with correct credentials receives a token.
C20_LoginIgnoresVerification ==
    [][(svc'.op = "loginUser" /\ procs' = procs /\ users' = users) =>
          \A u \in {x \in users : x.email = svc'.email} :
             \A flag \in BOOLEAN : \A code \in SubmittedCodes \cup {SqlNull} :
                LoginUser(svc'.email, svc'.password,
                          WithVerification(users, u, flag, code),
                          nextId, env, svc'.at).ret = ret']_vars

\* an account whose code is still outstanding has logged in
C20_Witness ==
    /\ svc.op = "loginUser" /\ ret.ok
    /\ ret.value.token.sig = Hmac(ServerSecret, ret.value.token.payload)
    /\ \E u \in users : /\ u.email = svc.email
                        /\ u.userid = ret.value.user.userid
                        /\ ~u.is_verified
                        /\ u.verification_code # SqlNull

\* ===================================================================
\* The application's middleware chain (SpecApp)
\* ===================================================================
\* the clock advances to the last millisecond of a window opened at 0, then
\* to the first millisecond after it, and so on
WindowStep(n) == IF n % 2 = 0 THEN Duration * 1000 - 1 ELSE 1

\* the requests an address sends: one address goes past the limit, the
\* other sends the few requests that are left
Quota(ip) == IF ip = Undefined THEN MaxRequests - Points ELSE MaxRequests

\* time passes between requests
Elapse ==
    /\ ticks < MaxTicks
    /\ now' = now + WindowStep(ticks)
    /\ ticks' = ticks + 1
    /\ UNCHANGED <<env, guardVars, svcVars, asyncVars, appVars, ctlVars>>

\* a request arrives and runs through the chain
HandleRequest ==
    /\ arrived < MaxRequests
    /\ \E ip \in ClientIps :
          LET o == InitializeApp(Incoming(ip), limiter, now) IN
          /\ Len(hist[ip]) < Quota(ip)
          /\ limiter' = o.store
          /\ hist' = [hist EXCEPT ![ip] = Append(@, [at |-> now, trace |-> o.trace,
                                                     res |-> o.res, console |-> o.console])]
    /\ arrived' = arrived + 1
    /\ UNCHANGED <<env, now, ticks, guardVars, svcVars, asyncVars, ctlVars>>

NextApp == Elapse \/ HandleRequest

SpecApp == Init /\ [][NextApp]_vars

\* the start of the limiter window the i-th request of a history falls in
RECURSIVE WindowStart(_, _)
WindowStart(h, i) ==
    IF i = 1 THEN h[1].at
    ELSE LET w == WindowStart(h, i - 1) IN
         IF h[i].at - w < Duration * 1000 THEN w ELSE h[i].at

\* the position of the i-th request among the requests of its window
Rank(h, i) == Cardinality({j \in 1..i : WindowStart(h, j) = WindowStart(h, i)})

\* the request went past rateLimiterMiddleware
Passed(r) == \E k \in 1..Len(r.trace) : r.trace[k] \in {"logger", "route"}

TooMany == Json(429, "Too Many Requests, please try again later")

\* C21: for each client IP at most 10 requests pass rateLimiterMiddleware
\* within one 60-second window; the 11th and every later request of the IP
\* in the window is answered 429 without next(), and what happens to a
\* request depends on the requests of its own IP only.
C21_TenPerWindowPerIp ==
    \A ip \in ClientIps :
        LET h == hist[ip] IN
        \A i \in 1..Len(h) :
            /\ Rank(h, i) <= Points => (Passed(h[i]) /\ h[i].res # <<TooMany>>)
            /\ Rank(h, i) > Points =>
                  /\ h[i].res = <<TooMany>>
                  /\ h[i].trace = <<"json", "rateLimiter">>
            /\ Cardinality({j \in 1..Len(h) :
                    WindowStart(h, j) = WindowStart(h, i) /\ Passed(h[j])}) <= Points

\* one IP has had its 11th and 12th request of a window refused
C21_Witness ==
    \E ip \in ClientIps :
        /\ Len(hist[ip]) >= 12
        /\ Rank(hist[ip], 12) = 12
        /\ \A i \in 1..10 : Passed(hist[ip][i])
        /\ hist[ip][11].res = <<TooMany>> /\ hist[ip][12].res = <<TooMany>>

\* the position of a stage in the trace of a request, 0 when it did not run
StageAt(r, stage) ==
    IF \E k \in 1..Len(r.trace) : r.trace[k] = stage
    THEN CHOOSE k \in 1..Len(r.trace) : r.trace[k] = stage
    ELSE 0

\* the lines logger wrote for the request
LoggerLines(r) ==
    {k \in 1..Len(r.console) :
        r.console[k][1] \notin {"Rate limit check passed for IP", "Rate limit exceeded for IP"}}

\* the requests handled so far
Handled == UNION {{hist[ip][i] : i \in 1..Len(hist[ip])} : ip \in ClientIps}

\* C22: the middleware runs in the order JSON body parser, rate limiter,
\* logger, routes: a request the rate limiter rejects with 429 is never
\* logged and never reaches a route handler, and every request that reaches
\* a route handler has first consumed one rate-limit point and then been
\* logged.
C22_MiddlewareOrder ==
    \A r \in Handled :
        /\ r.res = <<TooMany>> =>
              /\ StageAt(r, "logger") = 0 /\ StageAt(r, "route") = 0
              /\ LoggerLines(r) = {}
        /\ StageAt(r, "route") # 0 =>
              /\ 0 < StageAt(r, "json")
              /\ StageAt(r, "json") < StageAt(r, "rateLimiter")
              /\ StageAt(r, "rateLimiter") < StageAt(r, "logger")
              /\ StageAt(r, "logger") < StageAt(r, "route")
              /\ Len(r.trace) = 4
              /\ Len(r.console) = 2
              /\ r.console[1][1] = "Rate limit check passed for IP"
              /\ LoggerLines(r) = {2}

\* a request has reached a route and another has been rejected with 429
C22_Witness ==
    \E r \in Handled, q \in Handled :
        /\ StageAt(r, "route") = 4 /\ r.res[1].status = 200
        /\ q.res = <<TooMany>> /\ q.trace = <<"json", "rateLimiter">>

\* ===================================================================
\* The todo and user controllers (SpecControllers)
\* ===================================================================
\* the :id segments requests carry
IdTexts == {<<"1">>, <<"2">>, <<"a", "b", "c">>, <<"1", "a">>}

CtlNewUsers ==
    {[first_name |-> "Alice", last_name |-> "Mwangi", email |-> "alice@gmail.com",
      phone_number |-> "0711000001", password |-> "password123"]}

CtlUserBody ==
    [first_name |-> "John", last_name |-> "Doe", phone_number |-> "1234567890",
     password |-> "mypass123", role |-> "user"]

RunOver == hreq.pc \in {"idle", "done", "abandoned"}

\* a request reaches a controller
Receive ==
    /\ RunOver
    /\ served < MaxServed
    /\ \/ \E kind \in TodoByIdKinds \cup UserKinds, text \in IdTexts :
             hreq' = BeginRun(kind, text)
       \/ \E kind \in {"getTodos", "createTodo"} : hreq' = BeginRun(kind, <<>>)
    /\ served' = served + 1
    /\ UNCHANGED <<env, now, ticks, guardVars, svcVars, asyncVars, appVars, todos, nextTodo>>

\* the controller runs to its first await
StepStart ==
    /\ hreq.pc = "start"
    /\ hreq' = RunStart(hreq)
    /\ UNCHANGED <<env, now, ticks, guardVars, svcVars, asyncVars, appVars, todos, nextTodo, served>>

\* the early user controllers' getUser settles
StepPrecheck ==
    /\ hreq.pc = "precheck"
    /\ \E rejects \in BOOLEAN : hreq' = RunPrecheck(hreq, users, rejects)
    /\ UNCHANGED <<env, now, ticks, guardVars, svcVars, asyncVars, appVars, todos, nextTodo, served>>

\* the service's lookup settles
StepLookup ==
    /\ hreq.pc = "lookup"
    /\ \E rejects \in BOOLEAN : hreq' = RunLookup(hreq, todos, users, rejects)
    /\ UNCHANGED <<env, now, ticks, guardVars, svcVars, asyncVars, appVars, todos, nextTodo, served>>

\* the service's insert, update or delete settles
StepWrite ==
    /\ hreq.pc = "write"
    /\ \E rejects \in BOOLEAN :
          /\ hreq' = RunWrite(hreq, rejects, "ok")
          /\ IF rejects THEN UNCHANGED <<todos, nextTodo, users>>
             ELSE IF hreq.kind = "createTodo"
             THEN /\ todos' = todos \cup {[todoid |-> nextTodo, todo_name |-> "write tests"]}
                  /\ nextTodo' = nextTodo + 1
                  /\ UNCHANGED users
             ELSE IF hreq.kind = "updateTodo"
             THEN /\ todos' = RepoUpdateTodo(todos, hreq.id.n, "renamed")
                  /\ UNCHANGED <<nextTodo, users>>
             ELSE IF hreq.kind = "deleteTodo"
             THEN /\ todos' = RepoDeleteTodo(todos, hreq.id.n)
                  /\ UNCHANGED <<nextTodo, users>>
             ELSE IF hreq.kind \in UpdateKinds
             THEN /\ \E salt \in Salts :
                        users' = UpdateUser(hreq.id.n, CtlUserBody, salt, users, nextId).users
                  /\ UNCHANGED <<todos, nextTodo>>
             ELSE /\ users' = DeleteUser(hreq.id.n, users, nextId).users
                  /\ UNCHANGED <<todos, nextTodo>>
    /\ UNCHANGED <<env, now, ticks, guardVars, nextId, svc, ret, compared, signed,
                   asyncVars, appVars, served>>

\* the controller's promise was rejected: Express 5 hands the error to its
\* error handler, which answers 500; Express 4 does nothing with it
StepFramework ==
    /\ hreq.pc = "rejected"
    /\ \/ hreq' = Send(hreq, 500, [error |-> "Internal Server Error"])
       \/ hreq' = [hreq EXCEPT !.pc = "abandoned"]
    /\ UNCHANGED <<env, now, ticks, guardVars, svcVars, asyncVars, appVars, todos, nextTodo, served>>

CtlCreateUserCall == RunOver /\ CreateUserOn(CtlNewUsers)

NextControllers ==
    \/ Receive
    \/ StepStart
    \/ StepPrecheck
    \/ StepLookup
    \/ StepWrite
    \/ StepFramework
    \/ CtlCreateUserCall

SpecControllers == Init /\ [][NextControllers]_vars

\* the text is a decimal number: one or more digits and nothing else
IsNumeric(text) == text # <<>> /\ \A i \in 1..Len(text) : IsDigit(text[i])

\* the step in which a run of one of the /todos/:id controllers answers
TodoByIdAnswers ==
    /\ hreq.kind \in TodoByIdKinds /\ hreq.pc \in {"start", "lookup", "write"}
    /\ hreq'.kind = hreq.kind /\ hreq'.text = hreq.text
    /\ hreq'.pc = "done"

ReachesWrite(run) ==
    \E k \in 1..Len(run.repo) : run.repo[k] \in {"updateTodo", "deleteTodo"}

\* C23: for GET, PUT and DELETE on /todos/:id, unless the database fails, a
\* non-numeric id is answered 400 and a numeric id with no stored todo is
\* answered 404, in both cases without an update or delete reaching the
\* repository; only an existing todo is updated or deleted.
C23_NonNumeric400Missing404 ==
    [][(TodoByIdAnswers /\ hreq'.res[1].status # 500) =>
          /\ ~IsNumeric(hreq.text) =>
                /\ hreq'.res[1].status = 400
                /\ ~ReachesWrite(hreq') /\ todos' = todos
          /\ (IsNumeric(hreq.text) /\ ~HasTodo(todos, ParseInt(hreq.text))) =>
                /\ hreq'.res[1].status = 404
                /\ ~ReachesWrite(hreq') /\ todos' = todos
          /\ ReachesWrite(hreq') =>
                (IsNumeric(hreq.text) /\ HasTodo(todos, ParseInt(hreq.text)))]_vars

\* C29: every request handled by a todo or user controller gets exactly
\* one response, also when an awaited service or repository call rejects:
\* no run ends without a response and none sends two.
C29_EveryRunAnswersOnce ==
    /\ Len(IF hreq.kind = "none" THEN <<>> ELSE hreq.res) <= 1
    /\ (hreq.pc \in {"done", "abandoned"}) => Len(hreq.res) = 1

\* ===================================================================
\* The user service without the clock (SpecUsers)
\* ===================================================================
NextUsers == CreateUserCall \/ UpdateUserCall \/ DeleteUserCall \/ LoginUserCall

SpecUsers == Init /\ [][NextUsers]_vars

\* C24: updateUser(id, data) and deleteUser(id) of the user service throw
\* 'User not found' when no user has that id, and then neither hash a
\* password nor call the repository's update or delete: the table stays.
C24_MissingUserNoHashNoWrite ==
    [][(svc'.op \in {"updateUser", "deleteUser"} /\ ~HasId(users, svc'.id)) =>
          /\ ret' = Threw("User not found")
          /\ users' = users
          /\ \A uid \in (1..(MaxUsers + 1)) \ {u.userid : u \in users} :
                /\ \A user \in UpdateUsers, salt \in Salts :
                      LET o == UpdateUser(uid, user, salt, users, nextId) IN
                      /\ o.ret = Threw("User not found")
                      /\ o.hashed = <<>> /\ o.repo = <<"getUserById">>
                      /\ o.users = users
                /\ LET o == DeleteUser(uid, users, nextId) IN
                      /\ o.ret = Threw("User not found")
                      /\ o.hashed = <<>> /\ o.repo = <<"getUserById">>
                      /\ o.users = users]_vars

\* an update with a password for an id that no row of a non-empty table has
C24_Witness ==
    /\ svc.op = "updateUser" /\ ret = Threw("User not found")
    /\ svc.user.password # ""
    /\ users # {} /\ ~HasId(users, svc.id)

\* ===================================================================
\* BasicUtils (SpecBasicUtils)
\* ===================================================================
Usernames ==
    {JsString(c) : c \in {<<"d", "e", "v", "e", "L", "O", "P", "E", "R">>,
                          <<"d", "e", "v", "e", "l", "o", "p", "e", "r">>,
                          <<"D", "E", "V", "E", "L", "O", "P", "E", "R">>,
                          <<"d", "e", "v", "e", "L", "O", "P", "E", "R", " ">>,
                          <<"d", "e", "v", "e", "L", "O", "P", "E">>,
                          <<"d", "e", "v">>,
                          <<"R", "E", "P", "O", "L", "e", "v", "e", "d">>,
                          <<"A", "d", "m", "1", "n", "_", "Z">>,
                          <<"z">>,
                          <<>>}}

UtilPasswords ==
    {JsString(c) : c \in {<<"d", "e", "v">>, <<"D", "e", "v">>, <<"D", "E", "V">>,
                          <<"d", "e", "v", " ">>, <<"d", "e">>, <<>>,
                          <<"d", "e", "v", "e", "L", "O", "P", "E", "R">>}}

\* a call of authenticateUser
AuthenticateUserCall ==
    /\ \E username \in Usernames, password \in UtilPasswords :
          /\ svc' = [op |-> "authenticateUser", username |-> username, password |-> password]
          /\ ret' = Returned(AuthenticateUser(username, password))
    /\ UNCHANGED <<env, now, ticks, guardVars, users, nextId, compared, signed,
                   asyncVars, appVars, ctlVars>>

NextBasicUtils == AuthenticateUserCall

SpecBasicUtils == Init /\ [][NextBasicUtils]_vars

\* the lower-case letter of an upper-case one, the character itself otherwise
LowerOf(c) ==
    IF \E k \in 1..26 : UpperChars[k] = c
    THEN LowerChars[CHOOSE k \in 1..26 : UpperChars[k] = c]
    ELSE c

\* C25: authenticateUser(username, password) returns isAuthenticated = true
\* iff the username is exactly 'deveLOPER' and the password exactly 'dev',
\* and always returns usernameToLower equal to the lower-cased username and
\* usernameCharacters equal to the username's characters in their order.
C25_AuthenticateUser ==
    svc.op = "authenticateUser" =>
        LET u == svc.username.chars
            r == ret.value
        IN /\ r.isAuthenticated <=>
                 (/\ u = <<"d", "e", "v", "e", "L", "O", "P", "E", "R">>
                  /\ svc.password.chars = <<"d", "e", "v">>)
           /\ Len(r.usernameToLower.chars) = Len(u)
           /\ \A i \in 1..Len(u) :
                 /\ r.usernameToLower.chars[i] = LowerOf(u[i])
                 /\ ~IsUpper(r.usernameToLower.chars[i])
           /\ Len(r.usernameCharacters) = Len(u)
           /\ \A i \in 1..Len(u) : r.usernameCharacters[i].chars = <<u[i]>>

\* the one accepted pair has been presented
C25_Witness ==
    /\ svc.op = "authenticateUser"
    /\ svc.username = Developer /\ svc.password = Dev
    /\ ret.value.isAuthenticated
    /\ ret.value.usernameToLower.chars = <<"d", "e", "v", "e", "l", "o", "p", "e", "r">>

\* C26: after any sequence of createUser, updateUser and loginUser calls the
\* secret stored for a user is the hash of the password last supplied to
\* createUser or updateUser for that user, never the plaintext; a login
\* never changes it.
C26_StoredSecretIsHashOfLast ==
    [][/\ \A u \in users' : u.password.alg = "bcrypt"
       /\ (svc'.op = "createUser" /\ ret'.ok) =>
             \A u \in users' \ users : Matches(svc'.user.password, u)
       /\ (svc'.op = "updateUser" /\ ret'.ok) =>
             \A u \in users' : u.userid = svc'.id => Matches(svc'.user.password, u)
       /\ svc'.op = "loginUser" => users' = users]_vars

\* ===================================================================
\* Further properties of the guards and of the tokens login issues
\* ===================================================================

\* C27: a request that checkRoles denies leaves the request as it was:
\* req.user is set only on requests for which next() is called.
C27_DeniedLeavesRequest ==
    (call.mw = "checkRoles" /\ nextCalled = <<>>) =>
        (req = call.req0 /\ "user" \notin DOMAIN req)

\* the request that presents token t as 'Bearer <t>'
Presenting(t) == WithAuthorization(BaseRequest, <<W("Bearer"), Sp, t>>)

\* the times at which a token issued now or earlier is presented: at once,
\* now, and in the last millisecond before it expires
PresentedAt(issuedAt, exp) ==
    {c \in {issuedAt, now, exp * 1000 - 1} : c >= issuedAt /\ ClockTimestamp(c) < exp}

\* C28: the token loginUser returns for a row whose stored role is 'admin'
\* or 'user', presented as 'Bearer <token>' before its expiry to a guard
\* with the same secret, is accepted by checkRoles(that role) and by
\* checkRoles('both'), and req.user then has sub = the row's userid and
\* role = the stored role.
C28_LoginTokenPassesGuard ==
    (svc.op = "loginUser" /\ ret.ok) =>
        \A u \in {x \in users : x.email = svc.email /\ x.role \in {"admin", "user"}} :
            LET t == ret.value.token
                exp == t.payload.claims.exp
            IN /\ exp = ClockTimestamp(svc.at) + 60 * 60
               /\ \A c \in PresentedAt(svc.at, ClockTimestamp(svc.at) + 60 * 60) :
                  \A requiredRole \in {u.role, "both"} :
                     LET o == CheckRoles(requiredRole, Presenting(t), env, c) IN
                     /\ Len(o.nextCalled) = 1 /\ o.res = <<>>
                     /\ o.req.user.claims.sub = u.userid
                     /\ o.req.user.claims.role = u.role

\* an admin logged in and time has passed, short of the token's expiry
C28_Witness ==
    /\ svc.op = "loginUser" /\ ret.ok
    /\ now > svc.at /\ ClockTimestamp(now) < ret.value.token.payload.claims.exp
    /\ \E u \in users : u.email = svc.email /\ u.role = "admin"
    /\ Len(CheckRoles("admin", Presenting(ret.value.token), env, now).nextCalled) = 1

\* C30: for the same request, secret and clock, whenever checkRoles(r) lets
\* a request proceed, isAuthenticated lets it proceed too and attaches the
\* same req.user; and whenever isAuthenticated denies a request, checkRoles(r)
\* denies it for every r.
C30_CheckRolesRefinesIsAuthenticated ==
    /\ (call.mw = "checkRoles" /\ Proceeded) =>
          LET o == IsAuthenticated(call.req0, env, call.at) IN
          /\ Len(o.nextCalled) = 1 /\ o.res = <<>>
          /\ o.req = req
          /\ "user" \in DOMAIN req
    /\ (call.mw = "isAuthenticated" /\ ~Proceeded) =>
          \A requiredRole \in RequiredRoles :
             LET o == CheckRoles(requiredRole, call.req0, env, call.at) IN
             /\ o.nextCalled = <<>>
             /\ Len(o.res) = 1 /\ o.res[1].status = 401

\* checkRoles let a request with a verified token proceed
C30_Witness ==
    /\ call.mw = "checkRoles" /\ Proceeded
    /\ "user" \in DOMAIN req
    /\ Len(IsAuthenticated(call.req0, env, call.at).nextCalled) = 1

====
